---------------------------- MODULE Spec2Model ----------------------------
(***************************************************************************)
(* Grid pathfinding core of the repository: Grid, the connectivity-        *)
(* preserving obstacle generator of PathfinderCoordinator, and the search  *)
(* algorithms (A*, Dijkstra, BFS, DFS recursive and iterative, Greedy      *)
(* Best-First) with their PerformanceCounter.                              *)
(*                                                                         *)
(* Positions are records [row, col]; a Grid is a record                    *)
(* [width, height, cells, start, end] with cells a function from the       *)
(* in-bounds positions to CellType.  obstacle_percentage is carried as an  *)
(* integer number of percent; (total * pct) \div 100 equals the code's     *)
(* `(total as f64 * pct) as usize` for every percentage and grid used.     *)
(***************************************************************************)
EXTENDS Integers, Sequences, FiniteSets, Bags, TLC

\* Largest grid built by hand (Grid::new followed by add_obstacle calls).
MaxWidth == 4
MaxHeight == 3
\* Largest number of Blocked cells placed by hand before a search.
MaxObstacles == 3
\* Largest grid (in cells) handed to a search algorithm.
MaxSearchCells == 12
\* Largest grid handed to the coordinator's generators.
GenMaxWidth == 5
GenMaxHeight == 4
\* Largest obstacle_count the random placement loop is asked for.
MaxTarget == 4
\* Longest sorted slice handed to jump_search::search.
MaxLen == 6
\* The words of a slice are 0..MaxWord, ordered as the strings they stand for.
MaxWord == 3

\* Obstacle percentages tried (percent).
Percentages == {0, 30, 50, 80}

---------------------------------------------------------------------------
\* Position / CellType / Grid

CellType == {"Open", "Blocked", "Start", "End"}

Position_new(r, c) == [row |-> r, col |-> c]

NoPosition == [row |-> -1, col |-> -1]

saturating_sub(a, b) == IF a >= b THEN a - b ELSE 0

abs(x) == IF x < 0 THEN -x ELSE x

Positions(w, h) == {Position_new(r, c) : r \in 0..(h - 1), c \in 0..(w - 1)}

Grid_new(w, h, s, e) ==
    LET c0 == [p \in Positions(w, h) |-> "Open"]
        c1 == IF s.row < h /\ s.col < w THEN [c0 EXCEPT ![s] = "Start"] ELSE c0
        c2 == IF e.row < h /\ e.col < w THEN [c1 EXCEPT ![e] = "End"] ELSE c1
    IN  [width |-> w, height |-> h, cells |-> c2, start |-> s, end |-> e]

\* add_obstacle without the start/end guard.
add_obstacle_unguarded(g, pos) ==
    IF pos.row < g.height /\ pos.col < g.width
    THEN [g EXCEPT !.cells[pos] = "Blocked"]
    ELSE g

\* add_obstacle that guards start but not end.
add_obstacle_end_unguarded(g, pos) ==
    IF pos.row < g.height /\ pos.col < g.width
    THEN IF pos # g.start
         THEN [g EXCEPT !.cells[pos] = "Blocked"]
         ELSE g
    ELSE g

add_obstacle(g, pos) ==
    IF pos.row < g.height /\ pos.col < g.width
    THEN IF pos # g.start /\ pos # g.end
         THEN [g EXCEPT !.cells[pos] = "Blocked"]
         ELSE g
    ELSE g

\* directions listed right, down, left, up.
directions_clockwise == << <<0, 1>>, <<1, 0>>, <<0, -1>>, <<-1, 0>> >>

\* directions listed left, right, down, up.
directions_left_first == << <<0, -1>>, <<0, 1>>, <<1, 0>>, <<-1, 0>> >>

directions == << <<0, 1>>, <<0, -1>>, <<1, 0>>, <<-1, 0>> >>

RECURSIVE neighbors_from(_, _, _)
neighbors_from(g, pos, i) ==
    IF i > Len(directions) THEN <<>>
    ELSE LET new_row == pos.row + directions[i][1]
             new_col == pos.col + directions[i][2]
             new_pos == Position_new(new_row, new_col)
             here == IF /\ new_row >= 0 /\ new_row < g.height
                        /\ new_col >= 0 /\ new_col < g.width
                     THEN IF g.cells[new_pos] # "Blocked" THEN <<new_pos>> ELSE <<>>
                     ELSE <<>>
         IN  here \o neighbors_from(g, pos, i + 1)

\* get_neighbors without the Blocked test.
get_neighbors_through_walls(g, pos) ==
    LET cand(i) == Position_new(pos.row + directions[i][1],
                                pos.col + directions[i][2])
        ok(i) == /\ cand(i).row >= 0 /\ cand(i).row < g.height
                 /\ cand(i).col >= 0 /\ cand(i).col < g.width
        keep == SelectSeq(<<1, 2, 3, 4>>, ok)
    IN  [k \in 1..Len(keep) |-> cand(keep[k])]

get_neighbors(g, pos) == neighbors_from(g, pos, 1)

is_valid_position(g, pos) ==
    pos.row < g.height /\ pos.col < g.width /\ g.cells[pos] # "Blocked"

---------------------------------------------------------------------------
\* PathfinderCoordinator: generators

\* The corner placement every generator (and every unit test) uses.
CornerStart == Position_new(0, 0)
CornerEnd(w, h) == Position_new(saturating_sub(h, 1), saturating_sub(w, 1))

create_empty_grid(w, h) == Grid_new(w, h, CornerStart, CornerEnd(w, h))

\* create_maze_like_grid, the nested loops `for row in 1..height-1` and
\* `for col in 1..width-1` (upper bounds exclusive), resumed at (row, col).
RECURSIVE maze_loop(_, _, _)
maze_loop(g, row, col) ==
    IF row >= g.height - 1 THEN g
    ELSE IF col >= g.width - 1 THEN maze_loop(g, row + 1, 1)
    ELSE LET pos == Position_new(row, col)
             g1 == IF row % 2 = 0 /\ col % 2 = 0
                   THEN IF pos # g.start /\ pos # g.end
                        THEN add_obstacle(g, pos)
                        ELSE g
                   ELSE g
         IN  maze_loop(g1, row, col + 1)

\* A maze whose loops start at 0 and run to the last row and column.
create_maze_like_grid_whole_grid(w, h) ==
    LET g == Grid_new(w, h, CornerStart, CornerEnd(w, h))
    IN  [g EXCEPT !.cells = [p \in DOMAIN g.cells |->
            IF p.row % 2 = 0 /\ p.col % 2 = 0 /\ p # g.start /\ p # g.end
            THEN "Blocked" ELSE g.cells[p]]]

create_maze_like_grid(w, h) ==
    maze_loop(Grid_new(w, h, CornerStart, CornerEnd(w, h)), 1, 1)

eight_directions ==
    << <<-1, -1>>, <<-1, 0>>, <<-1, 1>>,
       << 0, -1>>,            << 0, 1>>,
       << 1, -1>>, << 1, 0>>, << 1, 1>> >>

get_eight_directional_neighbors(pos, w, h) ==
    LET cand(i) == Position_new(pos.row + eight_directions[i][1],
                                pos.col + eight_directions[i][2])
        ok(i) == /\ cand(i).row >= 0 /\ cand(i).row < h
                 /\ cand(i).col >= 0 /\ cand(i).col < w
    IN  {cand(i) : i \in {j \in 1..Len(eight_directions) : ok(j)}}

\* A protected set of start and end alone.
get_protected_positions_endpoints_only(g) == {g.start, g.end}

get_protected_positions(g) ==
    {g.start} \union get_eight_directional_neighbors(g.start, g.width, g.height)
    \union {g.end} \union get_eight_directional_neighbors(g.end, g.width, g.height)

\* The inner for-loop of is_grid_connected: every neighbour not yet visited
\* is marked visited and queued, in neighbour order.
RECURSIVE enqueue_unvisited(_, _, _)
enqueue_unvisited(ns, queue, visited) ==
    IF ns = <<>> THEN [queue |-> queue, visited |-> visited]
    ELSE IF Head(ns) \notin visited
         THEN enqueue_unvisited(Tail(ns), Append(queue, Head(ns)),
                                visited \union {Head(ns)})
         ELSE enqueue_unvisited(Tail(ns), queue, visited)

RECURSIVE connected_loop(_, _, _)
connected_loop(g, queue, visited) ==
    IF queue = <<>> THEN FALSE
    ELSE LET current == Head(queue) IN
         IF current = g.end THEN TRUE
         ELSE LET r == enqueue_unvisited(get_neighbors(g, current),
                                         Tail(queue), visited)
              IN  connected_loop(g, r.queue, r.visited)

\* A connectivity check that reports every grid as connected.
is_grid_connected_unchecked(g) == g.end \in DOMAIN g.cells

is_grid_connected(g) == connected_loop(g, <<g.start>>, {g.start})

\* A revert that leaves the cell as the attempt made it.
reopen_nothing(g, pos) == g

\* grid.cells[row][col] = CellType::Open
reopen(g, pos) == [g EXCEPT !.cells[pos] = "Open"]

\* The small-grid test with && in place of ||.
too_small_both(w, h) == w < 3 /\ h < 3

\* create_random_obstacles_grid line 197.
too_small(w, h) == w < 3 \/ h < 3

total_cells(g) == g.width * g.height

\* max_attempts twice as large.
max_attempts_doubled(g) == total_cells(g) * 6

max_attempts(g) == total_cells(g) * 3

random_obstacle_count(g, pct) == (total_cells(g) * pct) \div 100

\* The staircase of create_simple_connected_grid: right along the start row
\* to the end column, then down that column to end.
RECURSIVE staircase(_, _, _)
staircase(current, e, acc) ==
    IF current = e THEN acc \union {e}
    ELSE IF current.col < e.col
         THEN staircase(Position_new(current.row, current.col + 1), e,
                        acc \union {current})
         ELSE IF current.row < e.row
              THEN staircase(Position_new(current.row + 1, current.col), e,
                             acc \union {current})
              ELSE acc \union {current, e}

\* obstacle_count without the factor 0.5.
simple_obstacle_count_full_ratio(g, path_cells, pct) ==
    ((total_cells(g) - Cardinality(path_cells)) * pct) \div 100

simple_obstacle_count(g, path_cells, pct) ==
    ((total_cells(g) - Cardinality(path_cells)) * pct) \div 200

---------------------------------------------------------------------------
\* PerformanceCounter

PerformanceCounter_new ==
    [nodes_explored |-> 0, nodes_in_frontier |-> 0, comparisons |-> 0,
     memory_allocations |-> 0]

\* explore_node that bumps the wrong field.
explore_node_miscounted(c) == [c EXCEPT !.nodes_in_frontier = @ + 1]

explore_node(c) == [c EXCEPT !.nodes_explored = @ + 1]

add_to_frontier(c) == [c EXCEPT !.nodes_in_frontier = @ + 1]

compare(c) == [c EXCEPT !.comparisons = @ + 1]

allocate_memory(c) == [c EXCEPT !.memory_allocations = @ + 1]

---------------------------------------------------------------------------
VARIABLES
    grid,                 \* the Grid under construction or under search
    call,                 \* entry point being exercised
    pc,                   \* position inside that entry point
    last_obstacle,        \* argument of the latest hand-made add_obstacle call
    obstacle_percentage,  \* generator argument (percent)
    obstacle_count,       \* generator local
    obstacles_placed,     \* generator local
    attempts,             \* generator local
    guaranteed_path,      \* create_simple_connected_grid local
    last_pick,            \* history: what the latest pass of the placement
                          \* loop did with its pick
    queue,                \* BFS queue; the stack of find_path_iterative
    heap,                 \* open_set / priority_queue (a bag of nodes)
    visited,              \* visited set
    came_from,            \* came_from / previous (partial map)
    g_score,              \* g_score / distances (partial map)
    frames,               \* call stack of dfs_recursive
    counter,              \* PerformanceCounter of the run
    current,              \* node popped (or entered) by the latest step
    path,                 \* DFS working path; the returned path once done
    result,               \* "none" while running, then "Ok" or "Err"
    explored,             \* history: the positions explore_node was called
                          \* for in this run (a bag)
    grids,                \* PathfinderCoordinator.grids
    api,                  \* coordinator method running ("idle" when none)
    api_result,           \* what the latest coordinator method returned
    grid_size,            \* its grid_size argument, <<width, height>>
    iterations,           \* its iterations argument
    algorithms,           \* run_benchmarks: names still to benchmark
    all_metrics,          \* run_benchmarks local
    algorithm_name,       \* benchmark_algorithm argument
    results,              \* benchmark_algorithm local
    grid_index,           \* benchmark_algorithm: index of `grid` in grids
    trial,                \* benchmark_algorithm: trials of this grid done
    total_duration,       \* benchmark_algorithm local
    successful_runs,      \* benchmark_algorithm local
    last_result,          \* benchmark_algorithm local (None or Some)
    trial_log,            \* history: <<path, counter, duration>> of every
                          \* trial of the current (algorithm, grid) pair
    calls,                \* history: coordinator methods called so far
                          \* (counted up to MaxCalls)
    data,                 \* jump_search::search argument (a sorted slice)
    target,               \* jump_search::search argument
    prev,                 \* jump_search::search local
    index,                \* jump_search::search: `i` of the linear for-loop
    comparisons,          \* jump_search::search local
    found                 \* first component of what search returned

genVars == <<obstacle_percentage, obstacle_count, obstacles_placed, attempts,
             guaranteed_path, last_pick>>

searchVars == <<queue, heap, visited, came_from, g_score, frames, counter,
                current, path, result, explored>>

jumpVars == <<data, target, prev, index, comparisons, found>>

benchVars == <<grids, api, api_result, grid_size, iterations, algorithms,
               all_metrics, algorithm_name, results, grid_index, trial,
               total_duration, successful_runs, last_result, trial_log,
               calls>>

vars == <<grid, call, pc, last_obstacle, obstacle_percentage, obstacle_count,
          obstacles_placed, attempts, guaranteed_path, last_pick, queue, heap,
          visited,
          came_from, g_score, frames, counter, current, path, result,
          explored, grids, api, api_result, grid_size, iterations, algorithms,
          all_metrics, algorithm_name, results, grid_index, trial,
          total_duration, successful_runs, last_result, trial_log, calls,
          data, target, prev, index, comparisons, found>>

Blocked(g) == {p \in DOMAIN g.cells : g.cells[p] = "Blocked"}

InitLocals ==
    /\ last_obstacle = NoPosition
    /\ obstacle_percentage = 0
    /\ obstacle_count = 0
    /\ obstacles_placed = 0
    /\ attempts = 0
    /\ guaranteed_path = {}
    /\ last_pick = "none"
    /\ queue = <<>>
    /\ heap = EmptyBag
    /\ visited = {}
    /\ came_from = <<>>
    /\ g_score = <<>>
    /\ frames = <<>>
    /\ counter = PerformanceCounter_new
    /\ current = NoPosition
    /\ path = <<>>
    /\ result = "none"
    /\ explored = EmptyBag

\* No jump search has been called.
InitJumpLocals ==
    /\ data = <<>>
    /\ target = 0
    /\ prev = 0
    /\ index = 0
    /\ comparisons = 0
    /\ found = FALSE

None == <<>>

Some(x) == <<x>>

\* PathfinderCoordinator::new(), and the locals of methods not yet called.
InitCoordinatorFields ==
    /\ grids = <<>>
    /\ api = "idle"
    /\ api_result = "none"
    /\ grid_size = <<0, 0>>
    /\ iterations = 0
    /\ algorithms = <<>>
    /\ all_metrics = <<>>
    /\ algorithm_name = ""
    /\ results = <<>>
    /\ grid_index = 0
    /\ trial = 0
    /\ total_duration = 0
    /\ successful_runs = 0
    /\ last_result = None
    /\ trial_log = <<>>
    /\ calls = 0

\* A unit test: Grid::new with corner start and end, then add_obstacle calls.
InitTest ==
    /\ InitJumpLocals
    /\ \E w \in 1..MaxWidth, h \in 1..MaxHeight :
          grid = Grid_new(w, h, CornerStart, CornerEnd(w, h))
    /\ call = "Grid::new"
    /\ pc = "built"
    /\ InitLocals
    /\ InitCoordinatorFields

\* The coordinator, about to call one of its generators for a grid size.
InitCoordinator ==
    /\ InitJumpLocals
    /\ \E w \in 1..GenMaxWidth, h \in 1..GenMaxHeight :
          grid = create_empty_grid(w, h)
    /\ call = "coordinator"
    /\ pc = "idle"
    /\ InitLocals
    /\ InitCoordinatorFields

AddObstacle(pos) ==
    /\ UNCHANGED jumpVars
    /\ UNCHANGED benchVars
    /\ call = "Grid::new" /\ pc = "built"
    /\ Cardinality(Blocked(grid)) < MaxObstacles
    /\ grid' = add_obstacle(grid, pos)
    /\ last_obstacle' = pos
    /\ UNCHANGED <<call, pc, genVars, searchVars>>

\* create_random_obstacles_grid(w, h, pct), up to the placement loop.
RandomEntry(w, h, pct) ==
    LET g == Grid_new(w, h, CornerStart, CornerEnd(w, h))
    IN  /\ grid' = g
        /\ obstacle_percentage' = pct
        /\ last_pick' = "none"
        /\ IF too_small(w, h)
           THEN /\ pc' = "returned"
                /\ UNCHANGED <<obstacle_count, obstacles_placed, attempts>>
           ELSE /\ random_obstacle_count(g, pct) <= MaxTarget
                /\ pc' = "placing"
                /\ obstacle_count' = random_obstacle_count(g, pct)
                /\ obstacles_placed' = 0
                /\ attempts' = 0

CreateRandomObstaclesGrid(pct) ==
    /\ UNCHANGED jumpVars
    /\ UNCHANGED benchVars
    /\ call = "coordinator" /\ pc = "idle"
    /\ call' = "create_random_obstacles_grid"
    /\ RandomEntry(grid.width, grid.height, pct)
    /\ UNCHANGED <<last_obstacle, guaranteed_path, searchVars>>

\* One iteration of the placement loop, for one random (row, col).
PlacementAttempt(row, col) ==
    /\ UNCHANGED jumpVars
    /\ UNCHANGED benchVars
    /\ pc = "placing"
    /\ obstacles_placed < obstacle_count /\ attempts < max_attempts(grid)
    /\ attempts' = attempts + 1
    /\ LET pos == Position_new(row, col) IN
       IF pos \in get_protected_positions(grid) \/ grid.cells[pos] # "Open"
       THEN /\ last_pick' = "skipped"
            /\ UNCHANGED <<grid, obstacles_placed>>
       ELSE LET g1 == add_obstacle(grid, pos) IN
            IF is_grid_connected(g1)
            THEN /\ grid' = g1
                 /\ obstacles_placed' = obstacles_placed + 1
                 /\ last_pick' = "placed"
            ELSE /\ grid' = reopen(g1, pos)
                 /\ last_pick' = "reverted"
                 /\ UNCHANGED obstacles_placed
    /\ UNCHANGED <<call, pc, last_obstacle, obstacle_percentage,
                   obstacle_count, guaranteed_path, searchVars>>

\* create_simple_connected_grid, up to its scatter loop.
SimpleEntry(w, h, pct) ==
    LET g == Grid_new(w, h, CornerStart, CornerEnd(w, h))
        gp == staircase(g.start, g.end, {})
    IN  /\ grid' = g
        /\ guaranteed_path' = gp
        /\ last_pick' = "none"
        /\ obstacle_percentage' = pct
        /\ obstacle_count' = simple_obstacle_count(g, gp, pct)
        /\ obstacles_placed' = 0
        /\ pc' = "scattering"

\* After the placement loop: re-verify, fall back if disconnected.
PlacementDone ==
    /\ UNCHANGED jumpVars
    /\ UNCHANGED benchVars
    /\ pc = "placing"
    /\ ~(obstacles_placed < obstacle_count /\ attempts < max_attempts(grid))
    /\ IF ~is_grid_connected(grid)
       THEN /\ SimpleEntry(grid.width, grid.height, obstacle_percentage)
            /\ UNCHANGED attempts
       ELSE /\ pc' = "returned"
            /\ UNCHANGED <<grid, genVars>>
    /\ UNCHANGED <<call, last_obstacle, searchVars>>

CreateEmptyGrid ==
    /\ UNCHANGED jumpVars
    /\ UNCHANGED benchVars
    /\ call = "coordinator" /\ pc = "idle"
    /\ grid' = create_empty_grid(grid.width, grid.height)
    /\ call' = "create_empty_grid"
    /\ pc' = "returned"
    /\ UNCHANGED <<last_obstacle, genVars, searchVars>>

CreateMazeLikeGrid ==
    /\ UNCHANGED jumpVars
    /\ UNCHANGED benchVars
    /\ call = "coordinator" /\ pc = "idle"
    /\ grid' = create_maze_like_grid(grid.width, grid.height)
    /\ call' = "create_maze_like_grid"
    /\ pc' = "returned"
    /\ UNCHANGED <<last_obstacle, genVars, searchVars>>

CreateSimpleConnectedGrid(pct) ==
    /\ UNCHANGED jumpVars
    /\ UNCHANGED benchVars
    /\ call = "coordinator" /\ pc = "idle"
    /\ simple_obstacle_count(grid, staircase(grid.start, grid.end, {}), pct)
          <= MaxTarget
    /\ SimpleEntry(grid.width, grid.height, pct)
    /\ call' = "create_simple_connected_grid"
    /\ UNCHANGED <<last_obstacle, attempts, searchVars>>

\* One iteration of the scatter loop, for one random (row, col).
ScatterAttempt(row, col) ==
    /\ UNCHANGED jumpVars
    /\ UNCHANGED benchVars
    /\ pc = "scattering"
    /\ obstacles_placed < obstacle_count
    /\ LET pos == Position_new(row, col) IN
       IF /\ pos \notin guaranteed_path
          /\ get_eight_directional_neighbors(pos, grid.width, grid.height)
                \intersect guaranteed_path = {}
          /\ grid.cells[pos] = "Open"
       THEN /\ grid' = add_obstacle(grid, pos)
            /\ obstacles_placed' = obstacles_placed + 1
       ELSE UNCHANGED <<grid, obstacles_placed>>
    /\ UNCHANGED <<call, pc, last_obstacle, obstacle_percentage,
                   obstacle_count, attempts, guaranteed_path, last_pick,
                   searchVars>>

ScatterDone ==
    /\ UNCHANGED jumpVars
    /\ UNCHANGED benchVars
    /\ pc = "scattering"
    /\ ~(obstacles_placed < obstacle_count)
    /\ pc' = "returned"
    /\ UNCHANGED <<grid, call, last_obstacle, genVars, searchVars>>

NextGrid ==
    \/ \E pos \in Positions(grid.width + 1, grid.height + 1) : AddObstacle(pos)
    \/ \E pct \in Percentages : CreateRandomObstaclesGrid(pct)
    \/ \E row \in 0..(grid.height - 1), col \in 0..(grid.width - 1) :
          PlacementAttempt(row, col)
    \/ PlacementDone
    \/ CreateEmptyGrid
    \/ CreateMazeLikeGrid
    \/ \E pct \in Percentages : CreateSimpleConnectedGrid(pct)
    \/ \E row \in 0..(grid.height - 1), col \in 0..(grid.width - 1) :
          ScatterAttempt(row, col)
    \/ ScatterDone

InitGrid == InitTest \/ InitCoordinator

SpecGrid == InitGrid /\ [][NextGrid]_vars

\* The body of the placement loop, for whatever cell is drawn.
PlacementLoopBody ==
    \E row \in 0..(grid.height - 1), col \in 0..(grid.width - 1) :
        PlacementAttempt(row, col)

\* The generators with the placement loop kept running: while its condition
\* holds, the next pass is eventually made.
SpecGridFair == SpecGrid /\ WF_vars(PlacementLoopBody)

---------------------------------------------------------------------------
\* Search algorithms

\* A weighted heuristic: twice the Manhattan distance.
heuristic_weighted(from, to) ==
    2 * (abs(from.col - to.col) + abs(from.row - to.row))

heuristic(from, to) == abs(from.col - to.col) + abs(from.row - to.row)

\* HashMap::insert on a partial map.
map_insert(m, k, v) == [x \in DOMAIN m \union {k} |-> IF x = k THEN v ELSE m[x]]

\* Walks the parent map back from `cur`; the accumulator is already in
\* start-to-end order (the code pushes, then reverses).
RECURSIVE reconstruct_from(_, _, _)
reconstruct_from(cf, cur, acc) ==
    IF cur \in DOMAIN cf
    THEN reconstruct_from(cf, cf[cur], <<cf[cur]>> \o acc)
    ELSE acc

reconstruct_path(cf, cur) == reconstruct_from(cf, cur, <<cur>>)

\* neighbors.reverse() left out: the neighbours are pushed in forward order.
reverse_nothing(s) == s

reverse(s) == [i \in 1..Len(s) |-> s[Len(s) + 1 - i]]

\* A heap node: position and the key the Ord impl compares.
Node(pos, key) == [position |-> pos, key |-> key]

heap_push(h, node) == h (+) SetToBag({node})

\* A pop that leaves the node in the heap.
heap_remove_nothing(h, node) == h

heap_remove(h, node) == h (-) SetToBag({node})

\* BinaryHeap::pop may return any node no other node is greater than; the
\* Ord impls are reversed on the key, so any node of least key.
\* A heap whose Ord impl is not reversed: pop returns a node of greatest key.
heap_pop_candidates_max(h) ==
    {n \in BagToSet(h) : \A m \in BagToSet(h) : n.key >= m.key}

heap_pop_candidates(h) ==
    {n \in BagToSet(h) : \A m \in BagToSet(h) : n.key <= m.key}

\* The containers of one run, threaded through the neighbour loops.
Locals ==
    [queue |-> queue, heap |-> heap, visited |-> visited,
     came_from |-> came_from, g_score |-> g_score, counter |-> counter]

NewLocals ==
    [queue |-> <<>>, heap |-> EmptyBag, visited |-> {}, came_from |-> <<>>,
     g_score |-> <<>>, counter |-> PerformanceCounter_new]

admit(c) == allocate_memory(add_to_frontier(c))

\* breadth_first::find_path, the for-loop over the neighbours of `cur`.
RECURSIVE bfs_neighbors(_, _, _)
bfs_neighbors(ns, cur, s) ==
    IF ns = <<>> THEN s
    ELSE LET neighbor == Head(ns)
             s1 == [s EXCEPT !.counter = compare(@)]
             s2 == IF neighbor \notin s1.visited
                   THEN [s1 EXCEPT !.visited = @ \union {neighbor},
                                   !.came_from = map_insert(@, neighbor, cur),
                                   !.queue = Append(@, neighbor),
                                   !.counter = admit(@)]
                   ELSE s1
         IN  bfs_neighbors(Tail(ns), cur, s2)

\* depth_first::find_path_iterative, the for-loop over the reversed neighbours.
RECURSIVE dfs_iterative_neighbors(_, _, _)
dfs_iterative_neighbors(ns, cur, s) ==
    IF ns = <<>> THEN s
    ELSE LET neighbor == Head(ns)
             s1 == [s EXCEPT !.counter = compare(@)]
             s2 == IF neighbor \notin s1.visited
                   THEN [s1 EXCEPT !.queue = Append(@, neighbor),
                                   !.came_from = map_insert(@, neighbor, cur),
                                   !.counter = admit(@)]
                   ELSE s1
         IN  dfs_iterative_neighbors(Tail(ns), cur, s2)

\* astar::find_path, the for-loop over the neighbours of `cur`.
RECURSIVE astar_neighbors(_, _, _, _)
astar_neighbors(ns, cur, goal, s) ==
    IF ns = <<>> THEN s
    ELSE LET neighbor == Head(ns)
             s1 == [s EXCEPT !.counter = compare(@)]
             tentative_g_score == s1.g_score[cur] + 1
             improves == \/ neighbor \notin DOMAIN s1.g_score
                         \/ tentative_g_score < s1.g_score[neighbor]
             s2 == IF improves
                   THEN [s1 EXCEPT
                           !.came_from = map_insert(@, neighbor, cur),
                           !.g_score = map_insert(@, neighbor, tentative_g_score),
                           !.heap = heap_push(@, Node(neighbor,
                               tentative_g_score + heuristic(neighbor, goal))),
                           !.counter = admit(@)]
                   ELSE s1
         IN  astar_neighbors(Tail(ns), cur, goal, s2)

\* The Dijkstra relaxation with the comparison flipped.
RECURSIVE dijkstra_neighbors_flipped(_, _, _, _)
dijkstra_neighbors_flipped(ns, cur, current_distance, s) ==
    IF ns = <<>> THEN s
    ELSE LET neighbor == Head(ns)
             s1 == [s EXCEPT !.counter = compare(@)]
             new_distance == current_distance + 1
             improves == /\ neighbor \in DOMAIN s1.g_score
                         /\ new_distance > s1.g_score[neighbor]
             s2 == IF neighbor \in s1.visited THEN s1
                   ELSE IF improves
                   THEN [s1 EXCEPT
                           !.g_score = map_insert(@, neighbor, new_distance),
                           !.came_from = map_insert(@, neighbor, cur),
                           !.heap = heap_push(@, Node(neighbor, new_distance)),
                           !.counter = admit(@)]
                   ELSE s1
         IN  dijkstra_neighbors_flipped(Tail(ns), cur, current_distance, s2)

\* dijkstra::find_path, the for-loop over the neighbours of `cur`.
RECURSIVE dijkstra_neighbors(_, _, _, _)
dijkstra_neighbors(ns, cur, current_distance, s) ==
    IF ns = <<>> THEN s
    ELSE LET neighbor == Head(ns)
             s1 == [s EXCEPT !.counter = compare(@)]
             new_distance == current_distance + 1
             improves == \/ neighbor \notin DOMAIN s1.g_score
                         \/ new_distance < s1.g_score[neighbor]
             s2 == IF neighbor \in s1.visited THEN s1
                   ELSE IF improves
                   THEN [s1 EXCEPT
                           !.g_score = map_insert(@, neighbor, new_distance),
                           !.came_from = map_insert(@, neighbor, cur),
                           !.heap = heap_push(@, Node(neighbor, new_distance)),
                           !.counter = admit(@)]
                   ELSE s1
         IN  dijkstra_neighbors(Tail(ns), cur, current_distance, s2)

\* greedy_best_first::find_path, the for-loop over the neighbours of `cur`.
RECURSIVE greedy_neighbors(_, _, _, _)
greedy_neighbors(ns, cur, goal, s) ==
    IF ns = <<>> THEN s
    ELSE LET neighbor == Head(ns)
             s1 == [s EXCEPT !.counter = compare(@)]
             s2 == IF neighbor \notin s1.visited
                   THEN [s1 EXCEPT
                           !.came_from = map_insert(@, neighbor, cur),
                           !.heap = heap_push(@, Node(neighbor,
                               heuristic(neighbor, goal))),
                           !.counter = admit(@)]
                   ELSE s1
         IN  greedy_neighbors(Tail(ns), cur, goal, s2)

Algorithms ==
    {"astar::find_path", "dijkstra::find_path", "breadth_first::find_path",
     "depth_first::find_path", "depth_first::find_path_iterative",
     "greedy_best_first::find_path"}

\* The state each find_path reaches just before its loop (for the recursive
\* DFS: inside the first dfs_recursive call, before its neighbour loop).
entry_locals(alg, g) ==
    CASE alg = "breadth_first::find_path" ->
           [NewLocals EXCEPT !.queue = <<g.start>>, !.visited = {g.start},
                             !.counter = admit(@)]
      [] alg = "depth_first::find_path_iterative" ->
           [NewLocals EXCEPT !.queue = <<g.start>>, !.counter = admit(@)]
      [] alg = "astar::find_path" ->
           [NewLocals EXCEPT !.g_score = map_insert(@, g.start, 0),
                             !.heap = heap_push(@, Node(g.start,
                                          heuristic(g.start, g.end))),
                             !.counter = admit(@)]
      [] alg = "dijkstra::find_path" ->
           [NewLocals EXCEPT !.g_score = map_insert(@, g.start, 0),
                             !.heap = heap_push(@, Node(g.start, 0)),
                             !.counter = admit(@)]
      [] alg = "greedy_best_first::find_path" ->
           [NewLocals EXCEPT !.heap = heap_push(@, Node(g.start,
                                          heuristic(g.start, g.end))),
                             !.counter = admit(@)]
      [] alg = "depth_first::find_path" ->
           [NewLocals EXCEPT !.visited = {g.start},
                             !.counter = explore_node(@)]

\* The history of explore_node calls after a step that leaves the counter
\* at `c` having popped (or entered) `cur`.
explored_after(c, cur) ==
    IF c.nodes_explored > counter.nodes_explored
    THEN explored (+) SetToBag({cur})
    ELSE explored

SetLocals(s) ==
    /\ queue' = s.queue
    /\ heap' = s.heap
    /\ visited' = s.visited
    /\ came_from' = s.came_from
    /\ g_score' = s.g_score
    /\ counter' = s.counter

\* return Ok((p, counter))
Return(p, s, cur) ==
    /\ SetLocals(s)
    /\ explored' = explored_after(s.counter, cur)
    /\ current' = cur
    /\ path' = p
    /\ result' = "Ok"
    /\ pc' = "done"
    /\ frames' = <<>>

\* next iteration of the while-let loop
Continue(s, cur) ==
    /\ SetLocals(s)
    /\ explored' = explored_after(s.counter, cur)
    /\ current' = cur
    /\ UNCHANGED <<path, result, pc, frames>>

gridVars == <<grid, last_obstacle, genVars>>

\* Control enters find_path `alg` on grid g and reaches its loop.
Enter(alg, g) ==
    /\ SetLocals(entry_locals(alg, g))
    /\ IF alg = "depth_first::find_path"
       THEN /\ current' = g.start
            /\ explored' = SetToBag({g.start})
            /\ IF g.start = g.end
               THEN /\ path' = <<g.start>>
                    /\ result' = "Ok"
                    /\ pc' = "done"
                    /\ frames' = <<>>
               ELSE /\ path' = <<g.start>>
                    /\ result' = "none"
                    /\ pc' = "searching"
                    /\ frames' = <<[position |-> g.start, next |-> 1]>>
       ELSE /\ current' = NoPosition
            /\ explored' = EmptyBag
            /\ path' = <<>>
            /\ result' = "none"
            /\ pc' = "searching"
            /\ frames' = <<>>

\* A caller hands the finished grid to one of the find_path functions.
FindPath(alg) ==
    /\ UNCHANGED jumpVars
    /\ UNCHANGED benchVars
    /\ \/ call = "Grid::new" /\ pc = "built"
       \/ call \in {"create_empty_grid", "create_random_obstacles_grid",
                    "create_maze_like_grid", "create_simple_connected_grid"}
          /\ pc = "returned"
    /\ total_cells(grid) <= MaxSearchCells
    /\ call' = alg
    /\ last_obstacle' = NoPosition
    /\ obstacle_percentage' = 0
    /\ obstacle_count' = 0
    /\ obstacles_placed' = 0
    /\ attempts' = 0
    /\ guaranteed_path' = {}
    /\ last_pick' = "none"
    /\ UNCHANGED grid
    /\ Enter(alg, grid)

BfsStep ==
    /\ UNCHANGED jumpVars
    /\ UNCHANGED benchVars
    /\ call = "breadth_first::find_path" /\ pc = "searching"
    /\ UNCHANGED <<gridVars, call>>
    /\ IF queue = <<>>
       THEN Return(<<>>, Locals, current)
       ELSE LET cur == Head(queue)
                s1 == [Locals EXCEPT !.queue = Tail(@),
                                     !.counter = explore_node(@)]
            IN  IF cur = grid.end
                THEN Return(reconstruct_path(s1.came_from, cur), s1, cur)
                ELSE Continue(bfs_neighbors(get_neighbors(grid, cur), cur, s1),
                              cur)

DfsIterativeStep ==
    /\ UNCHANGED jumpVars
    /\ UNCHANGED benchVars
    /\ call = "depth_first::find_path_iterative" /\ pc = "searching"
    /\ UNCHANGED <<gridVars, call>>
    /\ IF queue = <<>>
       THEN Return(<<>>, Locals, current)
       ELSE LET cur == queue[Len(queue)]
                s0 == [Locals EXCEPT !.queue = SubSeq(@, 1, Len(@) - 1)]
                s1 == [s0 EXCEPT !.visited = @ \union {cur},
                                 !.counter = explore_node(@)]
            IN  IF cur \in visited
                THEN Continue(s0, cur)
                ELSE IF cur = grid.end
                     THEN Return(reconstruct_path(s1.came_from, cur), s1, cur)
                     ELSE Continue(dfs_iterative_neighbors(
                                       reverse(get_neighbors(grid, cur)),
                                       cur, s1), cur)

AStarPop(node) ==
    LET cur == node.position
        s1 == [Locals EXCEPT !.heap = heap_remove(@, node),
                             !.counter = explore_node(@)]
    IN  IF cur = grid.end
        THEN Return(reconstruct_path(s1.came_from, cur), s1, cur)
        ELSE Continue(astar_neighbors(get_neighbors(grid, cur), cur,
                                      grid.end, s1), cur)

AStarStep ==
    /\ UNCHANGED jumpVars
    /\ UNCHANGED benchVars
    /\ call = "astar::find_path" /\ pc = "searching"
    /\ UNCHANGED <<gridVars, call>>
    /\ IF heap = EmptyBag
       THEN Return(<<>>, Locals, current)
       ELSE \E node \in heap_pop_candidates(heap) : AStarPop(node)

DijkstraPop(node) ==
    LET cur == node.position
        s0 == [Locals EXCEPT !.heap = heap_remove(@, node)]
        s1 == [s0 EXCEPT !.visited = @ \union {cur},
                         !.counter = explore_node(@)]
    IN  IF cur \in visited
        THEN Continue(s0, cur)
        ELSE IF cur = grid.end
             THEN Return(reconstruct_path(s1.came_from, cur), s1, cur)
             ELSE Continue(dijkstra_neighbors(get_neighbors(grid, cur), cur,
                                              s1.g_score[cur], s1), cur)

DijkstraStep ==
    /\ UNCHANGED jumpVars
    /\ UNCHANGED benchVars
    /\ call = "dijkstra::find_path" /\ pc = "searching"
    /\ UNCHANGED <<gridVars, call>>
    /\ IF heap = EmptyBag
       THEN Return(<<>>, Locals, current)
       ELSE \E node \in heap_pop_candidates(heap) : DijkstraPop(node)

GreedyPop(node) ==
    LET cur == node.position
        s0 == [Locals EXCEPT !.heap = heap_remove(@, node)]
        s1 == [s0 EXCEPT !.visited = @ \union {cur},
                         !.counter = explore_node(@)]
    IN  IF cur \in visited
        THEN Continue(s0, cur)
        ELSE IF cur = grid.end
             THEN Return(reconstruct_path(s1.came_from, cur), s1, cur)
             ELSE Continue(greedy_neighbors(get_neighbors(grid, cur), cur,
                                            grid.end, s1), cur)

GreedyStep ==
    /\ UNCHANGED jumpVars
    /\ UNCHANGED benchVars
    /\ call = "greedy_best_first::find_path" /\ pc = "searching"
    /\ UNCHANGED <<gridVars, call>>
    /\ IF heap = EmptyBag
       THEN Return(<<>>, Locals, current)
       ELSE \E node \in heap_pop_candidates(heap) : GreedyPop(node)

\* dfs_recursive: index of the first neighbour at or after `i` that is not
\* visited, or Len(ns) + 1 when the for-loop runs out.
RECURSIVE first_unvisited(_, _, _)
first_unvisited(ns, i, seen) ==
    IF i > Len(ns) THEN i
    ELSE IF ns[i] \notin seen THEN i
         ELSE first_unvisited(ns, i + 1, seen)

\* counter.compare() once per neighbour the for-loop looked at.
RECURSIVE compare_n(_, _)
compare_n(n, c) == IF n = 0 THEN c ELSE compare_n(n - 1, compare(c))

\* dfs_recursive, resumed in the innermost call: the for-loop runs until it
\* either recurses into an unvisited neighbour or falls through and returns
\* false to its caller.
DfsRecursiveStep ==
    /\ UNCHANGED jumpVars
    /\ UNCHANGED benchVars
    /\ call = "depth_first::find_path" /\ pc = "searching"
    /\ UNCHANGED <<gridVars, call, queue, heap, came_from, g_score>>
    /\ LET top == frames[Len(frames)]
           ns == get_neighbors(grid, top.position)
           i == first_unvisited(ns, top.next, visited)
       IN  IF i > Len(ns)
           THEN \* path.pop(); return false
                /\ counter' = compare_n(Len(ns) + 1 - top.next, counter)
                /\ UNCHANGED <<visited, current, explored>>
                /\ IF Len(frames) = 1
                   THEN /\ path' = <<>>
                        /\ result' = "Ok"
                        /\ pc' = "done"
                        /\ frames' = <<>>
                   ELSE /\ path' = SubSeq(path, 1, Len(path) - 1)
                        /\ frames' = SubSeq(frames, 1, Len(frames) - 1)
                        /\ UNCHANGED <<result, pc>>
           ELSE \* dfs_recursive(grid, neighbor, ...)
                /\ counter' = explore_node(allocate_memory(
                                 compare_n(i + 1 - top.next, counter)))
                /\ visited' = visited \union {ns[i]}
                /\ current' = ns[i]
                /\ explored' = explored (+) SetToBag({ns[i]})
                /\ path' = Append(path, ns[i])
                /\ IF ns[i] = grid.end
                   THEN /\ result' = "Ok"
                        /\ pc' = "done"
                        /\ frames' = <<>>
                   ELSE /\ frames' = Append(
                              [frames EXCEPT ![Len(frames)].next = i + 1],
                              [position |-> ns[i], next |-> 1])
                        /\ UNCHANGED <<result, pc>>

NextSearch ==
    \/ \E alg \in Algorithms : FindPath(alg)
    \/ BfsStep
    \/ DfsIterativeStep
    \/ AStarStep
    \/ DijkstraStep
    \/ GreedyStep
    \/ DfsRecursiveStep

---------------------------------------------------------------------------
\* PathfinderCoordinator: generate_test_grids, run_benchmarks and
\* benchmark_algorithm

\* grid_size arguments tried, <<width, height>>.
BenchSizes ==
    {<<0, 2>>, <<0, 3>>, <<3, 0>>, <<1, 1>>, <<2, 1>>, <<2, 2>>, <<3, 3>>}

\* The history counter `calls` stops counting here.
MaxCalls == 2

\* Largest iterations argument tried.
MaxIterations == 2

\* Largest stored grid (in cells) whose trials are followed: inside a
\* benchmark_algorithm call on its own, and inside run_benchmarks (where the
\* metrics of all five algorithms pile up).
MaxBenchCells == 4
MaxRunCells == 2

\* The percentage run_benchmarks passes to generate_test_grids (0.3).
BenchmarkPercentage == 30

\* run_benchmarks, `let algorithms = vec![...]`.
\* The list of run_benchmarks with the two uninformed searches first.
AlgorithmNames_uninformed_first ==
    <<"Breadth-First Search", "Depth-First Search", "A*", "Dijkstra",
      "Greedy Best-First">>

AlgorithmNames ==
    <<"A*", "Dijkstra", "Breadth-First Search", "Depth-First Search",
      "Greedy Best-First">>

\* An identifier that is none of the five.
UnknownName == "Bidirectional"

\* The match of benchmark_algorithm; "unknown" stands for the `_` arm.
dispatch(name) ==
    CASE name = "A*" -> "astar::find_path"
      [] name = "Dijkstra" -> "dijkstra::find_path"
      [] name = "Breadth-First Search" -> "breadth_first::find_path"
      [] name = "Depth-First Search" -> "depth_first::find_path"
      [] name = "Greedy Best-First" -> "greedy_best_first::find_path"
      [] OTHER -> "unknown"

get_theoretical_complexity(name) ==
    CASE name = "A*" -> "O(b^d)"
      [] name = "Dijkstra" -> "O((V + E) log V)"
      [] name = "Breadth-First Search" -> "O(V + E)"
      [] name = "Depth-First Search" -> "O(V + E)"
      [] name = "Greedy Best-First" -> "O(b^m)"
      [] OTHER -> "Unknown"

\* self.grids.clear() that clears nothing.
cleared_nothing(gs) == gs

\* self.grids.clear()
cleared(gs) == <<>>

\* `1..height-1` or `1..width-1` is evaluated with a zero operand: the
\* first always, the second once the outer loop has a row to run (height
\* >= 3).
maze_underflows(w, h) == h = 0 \/ (h >= 3 /\ w = 0)

\* What a usize subtraction below zero does: a panic where overflow checks
\* are compiled in, a wrap to usize::MAX (and a loop over that range) where
\* they are not.
UnderflowOutcomes == {"panicked", "wrapped"}

\* start_time.elapsed(), in ticks of the model's clock: one for the call
\* and one per node explored and per comparison of the trial.
elapsed(c) == 1 + c.nodes_explored + c.comparisons

\* total_duration that keeps only the latest trial's duration.
total_duration_add_latest_only(total, duration) == duration

\* total_duration += duration
total_duration_add(total, duration) == total + duration

\* successful_runs > 0, tested as >= 0.
has_successful_runs_nonneg(n) == n >= 0

\* if successful_runs > 0
has_successful_runs(n) == n > 0

\* A trial that counts as successful whenever find_path returned Ok.
is_successful_any_ok(r, p) == r = "Ok"

\* if let Ok(path_result) = result { if !path_result.0.is_empty() {
is_successful(r, p) == r = "Ok" /\ p # <<>>

\* A trial outcome that replaces last_result only while it is None.
keep_first_result(kept, p, c) ==
    IF kept = None THEN Some([path |-> p, counter |-> c]) ELSE kept

\* last_result = Some(path_result)
keep_last_result(kept, p, c) == Some([path |-> p, counter |-> c])

\* PathfindingMetrics { ... } of benchmark_algorithm.
PathfindingMetrics(name, g, last, avg_duration) ==
    [algorithm_name |-> name,
     path_found |-> last.path # <<>>,
     path_length |-> Len(last.path),
     nodes_explored |-> last.counter.nodes_explored,
     nodes_in_frontier |-> last.counter.nodes_in_frontier,
     duration |-> avg_duration,
     theoretical_complexity |-> get_theoretical_complexity(name),
     grid_size |-> <<g.width, g.height>>,
     obstacle_count |-> Cardinality(Blocked(g)),
     path |-> last.path]

\* PathfinderCoordinator::new()
InitNew ==
    /\ InitJumpLocals
    /\ grid = Grid_new(0, 0, CornerStart, CornerEnd(0, 0))
    /\ call = "coordinator"
    /\ pc = "ready"
    /\ InitLocals
    /\ InitCoordinatorFields

ResetGeneratorLocals ==
    /\ obstacle_percentage' = 0
    /\ obstacle_count' = 0
    /\ obstacles_placed' = 0
    /\ attempts' = 0
    /\ guaranteed_path' = {}
    /\ last_pick' = "none"

\* The locals of a finished find_path call are dropped.
DropSearchLocals ==
    /\ SetLocals(NewLocals)
    /\ frames' = <<>>
    /\ current' = NoPosition
    /\ path' = <<>>
    /\ result' = "none"
    /\ explored' = EmptyBag

ResetBenchmarkLocals ==
    /\ algorithm_name' = ""
    /\ results' = <<>>
    /\ grid_index' = 0
    /\ trial' = 0
    /\ total_duration' = 0
    /\ successful_runs' = 0
    /\ last_result' = None
    /\ trial_log' = <<>>

\* The running coordinator method returns r to its caller.
ApiReturn(r) ==
    /\ api' = "idle"
    /\ call' = "coordinator"
    /\ pc' = "ready"
    /\ api_result' = r

counted(n) == IF n < MaxCalls THEN n + 1 ELSE n

\* generate_test_grids(grid_size, pct): clear, push the empty grid, enter
\* create_random_obstacles_grid.
GenerateTestGridsEntry(w, h, pct) ==
    /\ calls' = counted(calls)
    /\ grid_size' = <<w, h>>
    /\ grids' = Append(cleared(grids), create_empty_grid(w, h))
    /\ RandomEntry(w, h, pct)
    /\ api_result' = "none"
    /\ ResetBenchmarkLocals
    /\ UNCHANGED <<last_obstacle, guaranteed_path, searchVars>>

GenerateTestGrids(w, h, pct) ==
    /\ UNCHANGED jumpVars
    /\ call = "coordinator" /\ pc = "ready"
    /\ api' = "generate_test_grids"
    /\ call' = "generate_test_grids"
    /\ iterations' = 0
    /\ algorithms' = <<>>
    /\ all_metrics' = <<>>
    /\ GenerateTestGridsEntry(w, h, pct)

\* run_benchmarks(grid_size, n), up to the random generator inside its
\* generate_test_grids call.
RunBenchmarks(w, h, n) ==
    /\ UNCHANGED jumpVars
    /\ call = "coordinator" /\ pc = "ready"
    /\ api' = "run_benchmarks"
    /\ call' = "run_benchmarks"
    /\ iterations' = n
    /\ algorithms' = <<>>
    /\ all_metrics' = <<>>
    /\ GenerateTestGridsEntry(w, h, BenchmarkPercentage)

\* The random generator has returned inside generate_test_grids: push its
\* grid, build and push the maze-like grid, return Ok(()); run_benchmarks
\* goes on to its list of algorithms.
GenerateTestGridsRest ==
    /\ UNCHANGED jumpVars
    /\ api \in {"generate_test_grids", "run_benchmarks"}
    /\ call = api /\ pc = "returned"
    /\ ResetGeneratorLocals
    /\ UNCHANGED <<grid, last_obstacle, searchVars, calls, grid_size,
                   iterations, all_metrics, algorithm_name, results, grid_index, trial,
                   total_duration, successful_runs, last_result, trial_log>>
    /\ IF maze_underflows(grid_size[1], grid_size[2])
       THEN /\ grids' = Append(grids, grid)
            /\ \E outcome \in UnderflowOutcomes : pc' = outcome
            /\ UNCHANGED <<api, call, api_result, algorithms>>
       ELSE /\ grids' = grids \o
                  <<grid, create_maze_like_grid(grid_size[1], grid_size[2])>>
            /\ IF api = "generate_test_grids"
               THEN /\ ApiReturn("Ok")
                    /\ UNCHANGED algorithms
               ELSE /\ algorithms' = AlgorithmNames
                    /\ pc' = "algorithms"
                    /\ UNCHANGED <<api, call, api_result>>

\* run_benchmarks, `for algorithm in algorithms`: call benchmark_algorithm
\* for the next name, or display the table and return Ok(all_metrics).
NextAlgorithm ==
    /\ UNCHANGED jumpVars
    /\ api = "run_benchmarks" /\ pc = "algorithms"
    /\ UNCHANGED <<gridVars, searchVars, grids, calls, grid_size, iterations,
                   all_metrics, trial, total_duration, successful_runs,
                   last_result, trial_log>>
    /\ IF algorithms = <<>>
       THEN /\ ApiReturn("Ok")
            /\ UNCHANGED <<algorithms, algorithm_name, results, grid_index>>
       ELSE /\ algorithm_name' = Head(algorithms)
            /\ algorithms' = Tail(algorithms)
            /\ results' = <<>>
            /\ grid_index' = 1
            /\ pc' = "grids"
            /\ UNCHANGED <<api, call, api_result>>

\* benchmark_algorithm(name, n) called on the stored grids.
BenchmarkAlgorithm(name, n) ==
    /\ UNCHANGED jumpVars
    /\ call = "coordinator" /\ pc = "ready"
    /\ api' = "benchmark_algorithm"
    /\ call' = "benchmark_algorithm"
    /\ pc' = "grids"
    /\ api_result' = "none"
    /\ iterations' = n
    /\ algorithm_name' = name
    /\ results' = <<>>
    /\ grid_index' = 1
    /\ algorithms' = <<>>
    /\ all_metrics' = <<>>
    /\ trial' = 0
    /\ total_duration' = 0
    /\ successful_runs' = 0
    /\ last_result' = None
    /\ trial_log' = <<>>
    /\ calls' = counted(calls)
    /\ UNCHANGED <<gridVars, searchVars, grids, grid_size>>

\* benchmark_algorithm, `for grid in &self.grids`: start the trials of the
\* next grid, or return Ok(results).
BenchmarkNextGrid ==
    /\ UNCHANGED jumpVars
    /\ api \in {"run_benchmarks", "benchmark_algorithm"} /\ pc = "grids"
    /\ UNCHANGED <<gridVars, searchVars, grids, calls, grid_size, iterations,
                   algorithms, algorithm_name, grid_index>>
    /\ IF grid_index > Len(grids)
       THEN /\ UNCHANGED <<results, trial, total_duration, successful_runs,
                           last_result, trial_log>>
            /\ IF api = "run_benchmarks"
               THEN /\ all_metrics' = all_metrics \o results
                    /\ pc' = "algorithms"
                    /\ UNCHANGED <<api, call, api_result>>
               ELSE /\ ApiReturn("Ok")
                    /\ UNCHANGED all_metrics
       ELSE /\ total_duration' = 0
            /\ successful_runs' = 0
            /\ last_result' = None
            /\ trial' = 0
            /\ trial_log' = <<>>
            /\ pc' = "trials"
            /\ UNCHANGED <<api, call, api_result, all_metrics, results>>

\* One pass of `for _ in 0..iterations`, up to the find_path call; the `_`
\* arm of the match returns the error.
TrialStart ==
    /\ UNCHANGED jumpVars
    /\ api \in {"run_benchmarks", "benchmark_algorithm"} /\ pc = "trials"
    /\ trial < iterations
    /\ UNCHANGED <<last_obstacle, genVars, grids, calls, grid_size, iterations,
                   algorithms, algorithm_name, grid_index, trial,
                   total_duration, successful_runs, last_result, trial_log>>
    /\ IF dispatch(algorithm_name) = "unknown"
       THEN /\ ApiReturn("Err")
            /\ results' = <<>>
            /\ all_metrics' = <<>>
            /\ UNCHANGED <<grid, searchVars>>
       ELSE /\ total_cells(grids[grid_index]) <=
                  (IF api = "run_benchmarks" THEN MaxRunCells
                                             ELSE MaxBenchCells)
            /\ grid' = grids[grid_index]
            /\ call' = dispatch(algorithm_name)
            /\ Enter(dispatch(algorithm_name), grids[grid_index])
            /\ UNCHANGED <<api, api_result, results, all_metrics>>

\* The find_path call has returned: the rest of the pass.
TrialEnd ==
    /\ UNCHANGED jumpVars
    /\ api \in {"run_benchmarks", "benchmark_algorithm"} /\ pc = "done"
    /\ LET duration == elapsed(counter) IN
       /\ total_duration' = total_duration_add(total_duration, duration)
       /\ IF is_successful(result, path)
          THEN /\ successful_runs' = successful_runs + 1
               /\ last_result' = keep_last_result(last_result, path, counter)
          ELSE UNCHANGED <<successful_runs, last_result>>
       /\ trial_log' = Append(trial_log, [path |-> path, counter |-> counter,
                                          duration |-> duration])
    /\ trial' = trial + 1
    /\ pc' = "trials"
    /\ call' = api
    /\ DropSearchLocals
    /\ UNCHANGED <<gridVars, grids, calls, api, api_result, grid_size,
                   iterations, algorithms, all_metrics, algorithm_name,
                   results, grid_index>>

\* After the last pass: push the metrics of this grid if any trial
\* succeeded, then on to the next grid.
TrialsDone ==
    /\ UNCHANGED jumpVars
    /\ api \in {"run_benchmarks", "benchmark_algorithm"} /\ pc = "trials"
    /\ ~(trial < iterations)
    /\ results' =
          IF has_successful_runs(successful_runs) /\ last_result # None
          THEN Append(results,
                      PathfindingMetrics(algorithm_name, grids[grid_index],
                          last_result[1],
                          total_duration \div successful_runs))
          ELSE results
    /\ grid_index' = grid_index + 1
    /\ pc' = "grids"
    /\ UNCHANGED <<gridVars, searchVars, grids, calls, api, call, api_result,
                   grid_size, iterations, algorithms, all_metrics,
                   algorithm_name, trial, total_duration, successful_runs,
                   last_result, trial_log>>

NextCoordinator ==
    \/ \E size \in BenchSizes, pct \in Percentages :
          GenerateTestGrids(size[1], size[2], pct)
    \/ \E size \in BenchSizes, n \in 0..MaxIterations :
          RunBenchmarks(size[1], size[2], n)
    \/ GenerateTestGridsRest
    \/ NextAlgorithm
    \/ \E i \in 1..(Len(AlgorithmNames) + 1), n \in 0..MaxIterations :
          BenchmarkAlgorithm((AlgorithmNames \o <<UnknownName>>)[i], n)
    \/ BenchmarkNextGrid
    \/ TrialStart
    \/ TrialEnd
    \/ TrialsDone

Init == InitGrid \/ InitNew

Next == NextGrid \/ NextSearch \/ NextCoordinator

Spec == Init /\ [][Next]_vars

---------------------------------------------------------------------------
\* Reference notions for the properties, defined on the cells alone.

Adjacent(a, b) == abs(a.row - b.row) + abs(a.col - b.col) = 1

Passable(g) == {p \in DOMAIN g.cells : g.cells[p] # "Blocked"}

RECURSIVE Closure(_, _)
Closure(g, seen) ==
    LET more == {q \in Passable(g) : \E p \in seen : Adjacent(p, q)}
    IN  IF more \subseteq seen THEN seen ELSE Closure(g, seen \union more)

ReachableCells(g) == Closure(g, {g.start})

EndReachable(g) == g.end \in ReachableCells(g)

\* Number of moves of a shortest 4-directional path from start to end
\* (-1 when there is none).
RECURSIVE DistanceFrom(_, _, _)
DistanceFrom(g, seen, d) ==
    IF g.end \in seen THEN d
    ELSE LET more == {q \in Passable(g) : \E p \in seen : Adjacent(p, q)}
         IN  IF more \subseteq seen THEN -1
             ELSE DistanceFrom(g, seen \union more, d + 1)

ShortestDistance(g) == DistanceFrom(g, {g.start}, 0)

SearchDone == call \in Algorithms /\ pc = "done"

RandomGridReturned == call = "create_random_obstacles_grid" /\ pc = "returned"

P(r, c) == Position_new(r, c)

ObstacleFree3x3 == grid = Grid_new(3, 3, P(0, 0), P(2, 2))

---------------------------------------------------------------------------
\* C1: for width >= 3 and height >= 3, every grid returned by
\* create_random_obstacles_grid, whatever cells were picked, has a
\* 4-directional path of non-Blocked cells from start (0,0) to end
\* (height-1, width-1).
C1_GeneratedGridConnected ==
    (RandomGridReturned /\ grid.width >= 3 /\ grid.height >= 3)
        => /\ grid.start = P(0, 0)
           /\ grid.end = P(grid.height - 1, grid.width - 1)
           /\ EndReachable(grid)

\* A 4x4 grid returned with three of the four cells that would seal the
\* start corner blocked; the loop gave up with the fourth still open.
C1_Witness ==
    /\ RandomGridReturned
    /\ grid.width = 4 /\ grid.height = 4
    /\ {P(0, 2), P(1, 2), P(2, 0)} \subseteq Blocked(grid)
    /\ obstacles_placed < obstacle_count
    /\ attempts = max_attempts(grid)

\* C2: whenever one of the six search functions returns a non-empty path,
\* the path starts at grid.start, ends at grid.end, holds no Blocked cell and
\* moves between 4-directionally adjacent cells.
C2_PathValid ==
    (SearchDone /\ path # <<>>)
        => /\ path[1] = grid.start
           /\ path[Len(path)] = grid.end
           /\ \A i \in 1..Len(path) :
                 path[i] \in DOMAIN grid.cells /\ grid.cells[path[i]] # "Blocked"
           /\ \A i \in 1..(Len(path) - 1) : Adjacent(path[i], path[i + 1])

\* The iterative DFS returns a path around at least two obstacles.
C2_Witness ==
    /\ SearchDone
    /\ call = "depth_first::find_path_iterative"
    /\ Cardinality(Blocked(grid)) >= 2
    /\ Len(path) >= 5

\* C3: when end is reachable, BFS, Dijkstra and A* each return a path with
\* (shortest 4-directional distance + 1) positions, whichever node of least
\* key the heap hands out.
C3_ShortestPath ==
    (/\ SearchDone
     /\ call \in {"breadth_first::find_path", "dijkstra::find_path",
                  "astar::find_path"}
     /\ EndReachable(grid))
        => Len(path) = ShortestDistance(grid) + 1

\* A* returns the 4-position path on the obstacle-free 4x1 row after
\* popping every cell.
C3_Witness ==
    /\ SearchDone
    /\ call = "astar::find_path"
    /\ grid = Grid_new(4, 1, P(0, 0), P(0, 3))
    /\ path = <<P(0, 0), P(0, 1), P(0, 2), P(0, 3)>>

\* C4: when end is not reachable, each search function returns Ok with an
\* empty path and a counter with nodes_explored >= 1.
C4_Unreachable ==
    (SearchDone /\ ~EndReachable(grid))
        => /\ result = "Ok"
           /\ path = <<>>
           /\ counter.nodes_explored >= 1

\* The recursive DFS finishes on the sealed 3x3 corner.
C4_Witness ==
    /\ SearchDone
    /\ call = "depth_first::find_path"
    /\ grid.width = 3 /\ grid.height = 3
    /\ Blocked(grid) = {P(0, 1), P(1, 0), P(1, 1)}
    /\ path = <<>>

\* C5: when end is reachable, every search function returns a non-empty path.
C5_Complete ==
    (SearchDone /\ EndReachable(grid)) => path # <<>>

\* Dijkstra finds a way round three obstacles.
C5_Witness ==
    /\ SearchDone
    /\ call = "dijkstra::find_path"
    /\ Cardinality(Blocked(grid)) = 3
    /\ EndReachable(grid)
    /\ path # <<>>

\* C6 as stated: on the obstacle-free 3x3 grid each of the five find_path
\* functions returns a path of exactly 5 positions.
C6_AllFiveReturnFive ==
    (/\ SearchDone
     /\ ObstacleFree3x3
     /\ call \in {"astar::find_path", "dijkstra::find_path",
                  "breadth_first::find_path", "depth_first::find_path",
                  "greedy_best_first::find_path"})
        => Len(path) = 5

DfsSnake3x3 ==
    <<P(0, 0), P(0, 1), P(0, 2), P(1, 2), P(1, 1), P(1, 0), P(2, 0), P(2, 1),
      P(2, 2)>>

\* C6 amended: on the obstacle-free 3x3 grid A*, Dijkstra, BFS and Greedy
\* Best-First return a path of exactly 5 positions, while DFS (recursive
\* and iterative) returns the 9-position path that sweeps row 0 rightwards,
\* row 1 leftwards and row 2 rightwards.
C6_FourReturnFive ==
    (SearchDone /\ ObstacleFree3x3)
        => IF call \in {"depth_first::find_path",
                        "depth_first::find_path_iterative"}
           THEN path = DfsSnake3x3
           ELSE Len(path) = 5

\* The recursive DFS has returned its 9-position path on that grid.
C6_Witness ==
    /\ SearchDone
    /\ ObstacleFree3x3
    /\ call = "depth_first::find_path"
    /\ Len(path) = 9

StartEndNotBlocked ==
    /\ grid.cells[grid.start] # "Blocked"
    /\ grid.cells[grid.end] # "Blocked"

\* A step of the hand-built phase is one add_obstacle(last_obstacle') call.
AddObstacleFrame ==
    (call = "Grid::new" /\ call' = "Grid::new")
        => LET pos == last_obstacle' IN
           /\ grid'.width = grid.width /\ grid'.height = grid.height
           /\ grid'.start = grid.start /\ grid'.end = grid.end
           /\ DOMAIN grid'.cells = DOMAIN grid.cells
           /\ \A q \in DOMAIN grid.cells :
                 grid'.cells[q] =
                     IF q = pos /\ q # grid.start /\ q # grid.end
                     THEN "Blocked"
                     ELSE grid.cells[q]

\* C7: the cells at grid.start and grid.end are never Blocked, in every
\* state of grid construction and generation; an add_obstacle call on start,
\* on end or out of bounds changes nothing, and any other call changes only
\* the cell it names, to Blocked.
C7_StartEndNeverBlocked ==
    [](StartEndNotBlocked) /\ [][AddObstacleFrame]_vars

\* add_obstacle has just been called on the start cell of a grid that
\* already holds an obstacle.
C7_Witness ==
    /\ call = "Grid::new"
    /\ last_obstacle = grid.start
    /\ Blocked(grid) # {}
    /\ grid.cells[grid.start] = "Start"

StartCells(g) == {p \in DOMAIN g.cells : g.cells[p] = "Start"}

EndCells(g) == {p \in DOMAIN g.cells : g.cells[p] = "End"}

\* C8 as stated: every grid of width >= 1 and height >= 1 holds exactly one
\* Start cell, at grid.start, and exactly one End cell, at grid.end.
C8_OneStartOneEnd ==
    /\ StartCells(grid) = {grid.start}
    /\ EndCells(grid) = {grid.end}

\* C8 amended: the same, for every grid whose start and end differ (width x
\* height >= 2 for the generators); on the 1x1 grid, where start = end, the
\* single cell is End and no cell is Start.
C8_OneStartOneEndWhenDistinct ==
    IF grid.start # grid.end
    THEN C8_OneStartOneEnd
    ELSE StartCells(grid) = {} /\ EndCells(grid) = {grid.end}

\* Two obstacles placed by hand, then add_obstacle aimed at end.
C8_Witness ==
    /\ call = "Grid::new"
    /\ grid.start # grid.end
    /\ Cardinality(Blocked(grid)) = 2
    /\ last_obstacle = grid.end

DirectionRank(p, q) ==
    CASE q.row = p.row /\ q.col = p.col + 1 -> 1
      [] q.row = p.row /\ q.col = p.col - 1 -> 2
      [] q.col = p.col /\ q.row = p.row + 1 -> 3
      [] q.col = p.col /\ q.row = p.row - 1 -> 4
      [] OTHER -> 0

\* C9: for every position of the grid, get_neighbors returns exactly the
\* in-bounds orthogonally adjacent cells that are not Blocked, each once, at
\* most four, in the order right, left, down, up.
C9_Neighbors ==
    \A pos \in DOMAIN grid.cells :
        LET ns == get_neighbors(grid, pos) IN
        /\ {ns[i] : i \in 1..Len(ns)}
              = {q \in Passable(grid) : Adjacent(pos, q)}
        /\ Len(ns) <= 4
        /\ \A i, j \in 1..Len(ns) :
              i < j => /\ DirectionRank(pos, ns[i]) >= 1
                       /\ DirectionRank(pos, ns[i]) < DirectionRank(pos, ns[j])

\* BFS has expanded the centre of a 3x3 grid whose cell above the centre is
\* Blocked, and queued the centre's three neighbours.
C9_Witness ==
    /\ call = "breadth_first::find_path"
    /\ grid.width = 3 /\ grid.height = 3
    /\ current = P(1, 1)
    /\ grid.cells[P(0, 1)] = "Blocked"
    /\ get_neighbors(grid, current) = <<P(1, 2), P(1, 0), P(2, 1)>>
    /\ {P(1, 2), P(1, 0), P(2, 1)} \subseteq visited

\* C10: whenever width < 3 or height < 3, the grid returned by
\* create_random_obstacles_grid has no Blocked cell, whatever the percentage.
C10_SmallGridObstacleFree ==
    (RandomGridReturned /\ (grid.width < 3 \/ grid.height < 3))
        => Blocked(grid) = {}

\* generate(2, 2, 0.5) has returned.
C10_Witness ==
    /\ RandomGridReturned
    /\ grid.width = 2 /\ grid.height = 2
    /\ obstacle_percentage = 50
    /\ Blocked(grid) = {}

\* C11 as stated: in every run of each of the five algorithms
\* nodes_explored is incremented at most once for any grid position, so it
\* never exceeds the number of non-Blocked cells, whichever node of least key
\* the heap hands out.
C11_ExploredOncePerPosition ==
    (/\ call \in Algorithms \ {"depth_first::find_path_iterative"}
     /\ grid.start \in DOMAIN grid.cells)
        => /\ \A p \in BagToSet(explored) : CopiesIn(p, explored) = 1
           /\ counter.nodes_explored <= Cardinality(Passable(grid))

MazeGridReturned == call = "create_maze_like_grid" /\ pc = "returned"

EvenIntersections(g) ==
    {p \in DOMAIN g.cells : p.row % 2 = 0 /\ p.col % 2 = 0}

Interior(g) ==
    {p \in DOMAIN g.cells : /\ p.row >= 1 /\ p.row <= g.height - 2
                            /\ p.col >= 1 /\ p.col <= g.width - 2}

\* C13 as stated: in the maze-like grid every cell whose row and column
\* index are both even, other than start and end, is Blocked, and no other
\* cell is Blocked.
C13_EveryEvenIntersectionBlocked ==
    MazeGridReturned
        => Blocked(grid) = EvenIntersections(grid) \ {grid.start, grid.end}

\* C13 amended: in the maze-like grid a cell is Blocked exactly when its row
\* and column index are both even and it lies in the interior
\* (1 <= row <= height-2 and 1 <= col <= width-2); even intersections on the
\* border rows and columns stay open.
C13_InteriorEvenIntersectionsBlocked ==
    MazeGridReturned
        => Blocked(grid) = EvenIntersections(grid) \intersect Interior(grid)

\* The 5x4 maze has been returned: (2,2) is Blocked, the border
\* intersections (0,2), (2,0) and (2,4) are not.
C13_Witness ==
    /\ MazeGridReturned
    /\ grid.width = 5 /\ grid.height = 4
    /\ grid.cells[P(2, 2)] = "Blocked"
    /\ grid.cells[P(0, 2)] = "Open"
    /\ grid.cells[P(2, 0)] = "Open"
    /\ grid.cells[P(2, 4)] = "Open"

Max(a, b) == IF a >= b THEN a ELSE b

Min(a, b) == IF a <= b THEN a ELSE b

Manhattan(a, b) ==
    (Max(a.col, b.col) - Min(a.col, b.col))
        + (Max(a.row, b.row) - Min(a.row, b.row))

\* Number of moves of a shortest 4-directional path from a to end (-1 when
\* there is none).
DistanceToEnd(g, a) == DistanceFrom(g, {a}, 0)

\* A* or Greedy Best-First has just keyed its start node with
\* heuristic(start, end) and has popped nothing yet.
HeuristicEntry ==
    /\ call \in {"astar::find_path", "greedy_best_first::find_path"}
    /\ counter.nodes_explored = 0
    /\ \E n \in BagToSet(heap) :
          n.position = grid.start /\ n.key = heuristic(grid.start, grid.end)

\* C19: heuristic(a, b) is the Manhattan distance |a.col - b.col| +
\* |a.row - b.row| (7 for (0,0) and (3,4)); on every grid handed to A* or
\* Greedy Best-First heuristic(a, end) never exceeds the shortest
\* 4-directional path length from a to end, and it differs by at most 1
\* between 4-adjacent cells.
C19_HeuristicManhattan ==
    HeuristicEntry =>
    /\ heuristic(P(0, 0), P(3, 4)) = 7
    /\ \A a, b \in DOMAIN grid.cells : heuristic(a, b) = Manhattan(a, b)
    /\ \A a \in Passable(grid) :
          DistanceToEnd(grid, a) >= 0
              => heuristic(a, grid.end) <= DistanceToEnd(grid, a)
    /\ \A a, b \in DOMAIN grid.cells :
          Adjacent(a, b)
              => abs(heuristic(a, grid.end) - heuristic(b, grid.end)) <= 1

\* A* starts on a grid where the obstacles force a detour from some cell:
\* its way to end is longer than its heuristic.
C19_Witness ==
    /\ HeuristicEntry
    /\ call = "astar::find_path"
    /\ \E a \in Passable(grid) :
          DistanceToEnd(grid, a) > heuristic(a, grid.end)

FiveAlgorithms == Algorithms \ {"depth_first::find_path_iterative"}

\* C20 as stated: at the end of every run of each of the five algorithms
\* nodes_in_frontier equals memory_allocations, every admission to the
\* frontier having incremented both.
C20_FrontierEqualsAllocations ==
    (SearchDone /\ call \in FiveAlgorithms)
        => counter.nodes_in_frontier = counter.memory_allocations

\* A generate_test_grids or run_benchmarks call has been made and the grids
\* are in place: between calls, or inside run_benchmarks from the list of
\* algorithms on.
GridsInPlace ==
    \/ pc = "ready" /\ grid_size # <<0, 0>>
    \/ /\ api = "run_benchmarks"
       /\ pc \in {"algorithms", "grids", "trials", "searching", "done"}

\* run_benchmarks is inside its generate_test_grids call, in or just out of
\* the random generator's loop on a grid of at least 3x3.
RegeneratingForBenchmarks ==
    /\ call = "run_benchmarks"
    /\ pc \in {"placing", "returned"}
    /\ grid_size[1] >= 3 /\ grid_size[2] >= 3

\* C12: after any sequence of generate_test_grids and run_benchmarks calls
\* the coordinator holds exactly three grids of the size of the latest call:
\* an obstacle-free one, a random-obstacle one and the maze-like one, in that
\* order; run_benchmarks generates them at 30 percent before any trial, and
\* every metric it collects is of a grid of that size.
C12_ThreeGridsOfLatestCall ==
    /\ GridsInPlace =>
          /\ Len(grids) = 3
          /\ \A i \in 1..3 :
                /\ grids[i].width = grid_size[1]
                /\ grids[i].height = grid_size[2]
                /\ grids[i].start = P(0, 0)
                /\ grids[i].end = CornerEnd(grid_size[1], grid_size[2])
          /\ Blocked(grids[1]) = {}
          /\ Blocked(grids[2]) \intersect get_protected_positions(grids[2]) = {}
          /\ EndReachable(grids[2]) \/ grids[2] = grids[1]
          /\ Blocked(grids[3])
                = EvenIntersections(grids[3]) \intersect Interior(grids[3])
    /\ RegeneratingForBenchmarks =>
          /\ obstacle_percentage = 30
          /\ obstacle_count = (grid_size[1] * grid_size[2] * 3) \div 10
          /\ Cardinality(Blocked(grid)) <= obstacle_count
          /\ grids = <<create_empty_grid(grid_size[1], grid_size[2])>>
    /\ (api = "run_benchmarks" /\ pc # "ready") =>
          \A i \in 1..Len(all_metrics) :
              all_metrics[i].grid_size = grid_size

\* A second coordinator call, run_benchmarks((3,3), n), has regenerated the
\* grids: the random one holds the two obstacles 30 percent of 9 cells
\* allows.
C12_Witness ==
    /\ calls = 2
    /\ api = "run_benchmarks"
    /\ pc = "algorithms"
    /\ grid_size = <<3, 3>>
    /\ Cardinality(Blocked(grids[2])) = 2

\* The trials of the current (algorithm, grid) pair that returned a
\* non-empty path, by their place in the trial log.
SuccessfulTrials == {i \in 1..Len(trial_log) : trial_log[i].path # <<>>}

LastSuccessfulTrial ==
    CHOOSE i \in SuccessfulTrials : \A j \in SuccessfulTrials : j <= i

\* The step of benchmark_algorithm that closes a pair: the trial loop is
\* over and the `for grid` loop moves on.
PairClosed == pc = "trials" /\ pc' = "grids"

\* The step that starts a trial: the find_path call is entered.
TrialStarted == pc = "trials" /\ call' \in Algorithms

\* C14: the nodes_explored, nodes_in_frontier, path and path_length of the
\* metric of an (algorithm, grid) pair are those of the last trial that
\* returned a non-empty path, and every trial starts from a fresh counter:
\* nothing is summed or averaged over the trials.
C14_MetricOfLastSuccessfulTrial ==
    [][/\ (PairClosed /\ SuccessfulTrials # {}) =>
            /\ Len(results') = Len(results) + 1
            /\ LET m == results'[Len(results')]
                   t == trial_log[LastSuccessfulTrial]
               IN  /\ m.nodes_explored = t.counter.nodes_explored
                   /\ m.nodes_in_frontier = t.counter.nodes_in_frontier
                   /\ m.path = t.path
                   /\ m.path_length = Len(t.path)
                   /\ m.path_found
       /\ TrialStarted =>
            counter' \in {add_to_frontier(allocate_memory(PerformanceCounter_new)),
                          explore_node(PerformanceCounter_new)}]_vars

\* A pair has been closed after two successful trials whose counters differ,
\* and the metric carries the counters of the second.
C14_Witness ==
    /\ pc = "grids"
    /\ Len(trial_log) = 2
    /\ SuccessfulTrials = {1, 2}
    /\ trial_log[1].counter.nodes_explored # trial_log[2].counter.nodes_explored
    /\ results # <<>>
    /\ results[Len(results)].nodes_explored = trial_log[2].counter.nodes_explored

RECURSIVE SumOfDurations(_, _)
\* The sum of the logged durations of the trials whose index is in S.
SumOfDurations(log, S) ==
    IF S = {} THEN 0
    ELSE LET i == CHOOSE j \in S : TRUE
         IN  log[i].duration + SumOfDurations(log, S \ {i})

\* C15: the duration of the metric of an (algorithm, grid) pair is the sum
\* of the durations of the trials that returned a non-empty path divided by
\* the number of those trials; trials that returned an empty path add
\* nothing to it.
C15_DurationAveragesSuccessfulTrials ==
    [][(PairClosed /\ SuccessfulTrials # {}) =>
          /\ Len(results') = Len(results) + 1
          /\ results'[Len(results')].duration =
                SumOfDurations(trial_log, SuccessfulTrials)
                   \div Cardinality(SuccessfulTrials)]_vars

\* A pair has been closed after two successful trials of different
\* durations; the metric reports their mean, which is neither of the two
\* nor their sum.
C15_Witness ==
    /\ pc = "grids"
    /\ Len(trial_log) = 2
    /\ SuccessfulTrials = {1, 2}
    /\ trial_log[1].duration # trial_log[2].duration
    /\ results # <<>>
    /\ results[Len(results)].duration =
          (trial_log[1].duration + trial_log[2].duration) \div 2

\* Within one pair the trials agree on success: the same grid is searched by
\* the same algorithm every time, so either every logged trial returned a
\* non-empty path or none did.
TrialsAgreeOnSuccess ==
    SuccessfulTrials \in {{}, 1..Len(trial_log)}

\* The step on which a direct benchmark_algorithm call returns from the end
\* of its `for grid` loop.
BenchmarkReturned ==
    api = "benchmark_algorithm" /\ pc = "grids" /\ pc' = "ready"

\* The algorithm being benchmarked is one of the five of the match.
KnownAlgorithm == dispatch(algorithm_name) # "unknown"

\* C16: for each of the five algorithms, a pair none of whose trials
\* returned a non-empty path, the pair with no trial at all included, adds no
\* metric and leaves the metrics of the grids before it as they are, and
\* benchmark_algorithm goes on to return Ok with the metrics collected.
C16_NoSuccessNoMetric ==
    [][/\ (KnownAlgorithm /\ PairClosed /\ SuccessfulTrials = {}) =>
             results' = results
       /\ (KnownAlgorithm /\ BenchmarkReturned) =>
             /\ api_result' = "Ok"
             /\ results' = results
             /\ Len(results) <= Len(grids)]_vars

\* benchmark_algorithm has returned Ok without a metric after trials were
\* run on the last grid and every one of them came back with an empty path
\* (the grids of width 0 have no cell to walk).
C16_Witness ==
    /\ pc = "ready"
    /\ api_result = "Ok"
    /\ KnownAlgorithm
    /\ Len(trial_log) = 2
    /\ SuccessfulTrials = {}
    /\ results = <<>>
    /\ Len(grids) = 3

\* benchmark_algorithm has returned Ok without a metric after zero
\* iterations on three grids that do have a path.
C16_ZeroIterations ==
    /\ pc = "ready"
    /\ api_result = "Ok"
    /\ KnownAlgorithm
    /\ iterations = 0
    /\ grid_size = <<2, 2>>
    /\ results = <<>>
    /\ Len(grids) = 3

\* C17: a benchmark_algorithm call with an identifier that is none of the
\* five names returns an error and no metric, whatever the number of
\* iterations and whatever grids are stored.
C17_UnknownAlgorithmIsAnError ==
    [][(api = "benchmark_algorithm" /\ ~KnownAlgorithm /\ pc' = "ready") =>
          /\ api_result' = "Err"
          /\ results' = <<>>]_vars

\* The part of C17 the code does keep: once a trial is attempted with an
\* unknown identifier the call returns the error, and no call with an
\* unknown identifier ever returns a metric.
UnknownAlgorithmErrAtFirstTrial ==
    [][(api = "benchmark_algorithm" /\ ~KnownAlgorithm /\ pc' = "ready") =>
          /\ results' = <<>>
          /\ api_result' = (IF iterations > 0 /\ grids # <<>> THEN "Err"
                                                               ELSE "Ok")]_vars

\* The cells the scatter loop of create_simple_connected_grid can still
\* block: off the guaranteed path, with no neighbour on it, and Open.
ScatterEligible ==
    {pos \in DOMAIN grid.cells :
        /\ pos \notin guaranteed_path
        /\ get_eight_directional_neighbors(pos, grid.width, grid.height)
              \intersect guaranteed_path = {}
        /\ grid.cells[pos] = "Open"}

\* The scatter loop still owes obstacles and no draw can place one: every
\* further iteration leaves the state as it is.
ScatterLoopStuck ==
    /\ pc = "scattering"
    /\ obstacles_placed < obstacle_count
    /\ ScatterEligible = {}

\* The subtraction of a loop bound of create_maze_like_grid went below zero.
MazeBoundUnderflowed == pc \in UnderflowOutcomes

\* C18: every generator entry point terminates with Ok for every width,
\* height and obstacle percentage: no generator is inside a retry loop that
\* cannot make progress, and none has aborted on, or wrapped around at, an
\* arithmetic underflow.
C18_GeneratorsTerminateOk ==
    /\ ~MazeBoundUnderflowed
    /\ ~ScatterLoopStuck

\* The part of C18 that holds apart from the maze bounds and the scatter
\* loop: the placement loop of create_random_obstacles_grid is capped by
\* max_attempts, and the grid it leaves is connected, so the fallback is not
\* taken.
PlacementLoopCapped ==
    pc = "placing" =>
        /\ attempts <= 3 * total_cells(grid)
        /\ EndReachable(grid)

\* C21: nodes_in_frontier counts a position only the first time it is
\* admitted to the frontier, so in no run of any algorithm does it exceed the
\* number of cells that are not Blocked.
C21_FrontierCountsFirstAdmissions ==
    (call \in Algorithms /\ grid.start \in DOMAIN grid.cells)
        => counter.nodes_in_frontier <= Cardinality(Passable(grid))

\* The searches that do keep to that bound within the grids checked:
\* breadth-first marks a cell visited when it pushes it, Dijkstra pushes a
\* cell only on a strictly smaller distance, and the recursive DFS never
\* calls add_to_frontier.
FrontierBoundedInThree ==
    (/\ call \in {"breadth_first::find_path", "dijkstra::find_path",
                  "depth_first::find_path"}
     /\ grid.start \in DOMAIN grid.cells)
        => counter.nodes_in_frontier <= Cardinality(Passable(grid))

\* The 3x3 grid with (0,2) and (2,0) Blocked: every way to the end runs
\* through the 2x2 block at the start corner.
CornerBlock3x3 ==
    /\ grid.width = 3 /\ grid.height = 3
    /\ grid.start = P(0, 0) /\ grid.end = P(2, 2)
    /\ Blocked(grid) = {P(0, 2), P(2, 0)}

\* Greedy on that grid ends with 8 admissions for 7 cells whichever node of
\* least heuristic the heap hands out, and find_path_iterative on the
\* obstacle-free 3x3 grid ends with 13 for 9.
FrontierOvercountExamples ==
    /\ (call = "greedy_best_first::find_path" /\ pc = "done" /\ CornerBlock3x3)
          => counter.nodes_in_frontier = 8
    /\ (/\ call = "depth_first::find_path_iterative" /\ pc = "done"
        /\ ObstacleFree3x3)
          => counter.nodes_in_frontier = 13

\* width x height x pct / 100 rounded to the nearest integer, halves up.
RoundedTarget(g, pct) == (2 * total_cells(g) * pct + 100) \div 200

\* The placement loop of create_random_obstacles_grid is running or has
\* just been left with Ok(grid), on a grid of at least 3x3.
PlacementPhase ==
    /\ pc \in {"placing", "returned"}
    /\ call \in {"create_random_obstacles_grid", "generate_test_grids",
                 "run_benchmarks"}
    /\ ~too_small(grid.width, grid.height)

\* C22: the placement phase works towards
\* round(width x height x obstacle_percentage) obstacles: that is its
\* target, it stops as soon as that many are placed, and the grid it returns
\* has no more Blocked cells than that.
C22_TargetIsRounded ==
    PlacementPhase =>
        /\ obstacle_count = RoundedTarget(grid, obstacle_percentage)
        /\ Cardinality(Blocked(grid)) <= RoundedTarget(grid, obstacle_percentage)
        /\ (pc = "returned" /\ attempts < max_attempts(grid))
              => Cardinality(Blocked(grid))
                    = RoundedTarget(grid, obstacle_percentage)

\* What the code does instead: the same three statements hold with the
\* product truncated towards zero.
TargetIsTruncated ==
    PlacementPhase =>
        /\ obstacle_count = (total_cells(grid) * obstacle_percentage) \div 100
        /\ Cardinality(Blocked(grid)) = obstacles_placed
        /\ obstacles_placed <= obstacle_count
        /\ (pc = "returned" /\ attempts < max_attempts(grid))
              => Cardinality(Blocked(grid)) = obstacle_count

\* The placement loop of create_random_obstacles_grid is running.
Placing == pc = "placing"

\* while obstacles_placed < obstacle_count && attempts < max_attempts
PlacementLoopCondition ==
    obstacles_placed < obstacle_count /\ attempts < max_attempts(grid)

\* C23: the placement loop makes at most 3 x width x height attempts; every
\* pass of the loop counts as one, whether it placed an obstacle or rejected
\* the pick and left the grid as it was; so the loop condition fails after
\* finitely many passes whatever is picked, also when the target is out of
\* reach.
C23_PlacementLoopTerminates ==
    /\ [](Placing => attempts <= 3 * grid.width * grid.height)
    /\ [][(Placing /\ pc' = "placing") =>
            /\ attempts' = attempts + 1
            /\ \/ grid' = grid /\ obstacles_placed' = obstacles_placed
               \/ obstacles_placed' = obstacles_placed + 1]_vars
    /\ (Placing ~> (~Placing \/ ~PlacementLoopCondition))

\* The loop has used up all its 27 attempts on the 3x3 grid at 50 percent,
\* where only (0,2) and (2,0) are outside the protected set and the target
\* of 4 is out of reach.
C23_Witness ==
    /\ call = "create_random_obstacles_grid"
    /\ grid.width = 3 /\ grid.height = 3
    /\ obstacle_count = 4
    /\ attempts = 27
    /\ obstacles_placed = 2
    /\ pc = "returned"

\* The in-bounds cells at most one row and one column away from p, p
\* itself included.
Around(g, p) ==
    {q \in DOMAIN g.cells : abs(q.row - p.row) <= 1 /\ abs(q.col - p.col) <= 1}

\* C24: in every grid the random placement phase returns, and after every
\* pass of its loop, start, end and every in-bounds cell 8-directionally
\* adjacent to either is not Blocked.
C24_EndpointsSurroundingsOpen ==
    PlacementPhase =>
        Blocked(grid) \intersect (Around(grid, grid.start)
                                     \union Around(grid, grid.end)) = {}

\* A 4x3 grid returned at 30 percent with three of its four unprotected
\* cells Blocked, after more passes than placements: some pick was rejected.
C24_Witness ==
    /\ RandomGridReturned
    /\ grid.width = 4 /\ grid.height = 3
    /\ Blocked(grid) = {P(0, 2), P(0, 3), P(2, 0)}
    /\ attempts > obstacles_placed

SimpleGridReturned ==
    call = "create_simple_connected_grid" /\ pc = "returned"

\* Row 0 from start to the last column, then the last column down to end.
StaircasePath(g) ==
    {q \in DOMAIN g.cells : q.row = 0 \/ q.col = g.width - 1}

\* The cells on the staircase or 8-directionally adjacent to a cell of it.
NearStaircase(g) ==
    UNION {Around(g, q) : q \in StaircasePath(g)}

\* C25: the grid create_simple_connected_grid returns has no Blocked cell
\* on the staircase path or next to it, holds exactly
\* floor((width x height - path length) x obstacle_percentage x 0.5) Blocked
\* cells, and is connected from start to end.
C25_SimpleGridKeepsStaircase ==
    SimpleGridReturned =>
        /\ guaranteed_path = StaircasePath(grid)
        /\ Cardinality(StaircasePath(grid)) = grid.width + grid.height - 1
        /\ Blocked(grid) \intersect NearStaircase(grid) = {}
        /\ Cardinality(Blocked(grid)) =
              ((grid.width * grid.height - (grid.width + grid.height - 1))
                  * obstacle_percentage) \div 200
        /\ EndReachable(grid)

\* create_simple_connected_grid(5, 4, 0.8) has returned with its 4 obstacles
\* among the six cells of rows 2 and 3, columns 0 to 2.
C25_Witness ==
    /\ SimpleGridReturned
    /\ grid.width = 5 /\ grid.height = 4
    /\ obstacle_percentage = 80
    /\ Cardinality(Blocked(grid)) = 4
    /\ P(3, 0) \in Blocked(grid)

\* A find_path call is inside its loop (or, for the recursive DFS, inside
\* its recursion).
Searching == call \in Algorithms /\ pc = "searching"

\* Entries waiting in the queue, stack or heap, plus open dfs_recursive
\* calls.
FrontierSize == Len(queue) + BagCardinality(heap) + Len(frames)

\* The number of cells of the grid, at least 1.
CellBound == Max(1, grid.width * grid.height)

\* C26: every run of the five algorithms and of find_path_iterative ends, on
\* every grid, with end reachable or not and whichever node of least key the
\* heap hands out: each pass of a search loop either returns, or explores one
\* more node, or only shortens the frontier, and the number of nodes explored
\* is bounded by the size of the grid (for A*, which may push a position
\* again for each smaller g_score, by its square).
C26_SearchesTerminate ==
    /\ [](call \in Algorithms =>
            /\ counter.nodes_in_frontier <= CellBound * CellBound
            /\ counter.nodes_explored <=
                  (IF call = "depth_first::find_path"
                   THEN CellBound ELSE counter.nodes_in_frontier)
            /\ (call = "depth_first::find_path" /\ pc = "searching")
                  => frames # <<>>)
    /\ [][Searching =>
            \/ pc' = "done" /\ result' = "Ok"
            \/ /\ pc' = "searching"
               /\ counter'.nodes_explored = counter.nodes_explored + 1
            \/ /\ pc' = "searching"
               /\ counter'.nodes_explored = counter.nodes_explored
               /\ FrontierSize' < FrontierSize]_vars

\* An A* run has come to its end, the empty path, on a grid whose end is
\* walled off, after exploring some position twice.
C26_Witness ==
    /\ call = "astar::find_path"
    /\ pc = "done"
    /\ path = <<>>
    /\ heap = EmptyBag
    /\ \E p \in BagToSet(explored) : CopiesIn(p, explored) = 2

\* A run has returned a path of five cells.
C26_Reachable ==
    /\ call \in Algorithms
    /\ pc = "done"
    /\ Len(path) = 5
    /\ EndReachable(grid)

\* A pass of the placement loop: the loop is running before and after.
PlacementPass == Placing /\ pc' = "placing"

\* C27: in create_random_obstacles_grid the grid is connected from start to
\* end after every pass of the placement loop, a pass whose pick fails the
\* connectivity check leaves every cell as it was, and so the check after
\* the loop passes and create_simple_connected_grid is not called.
C27_PlacementKeepsGridConnected ==
    /\ [](PlacementPhase => EndReachable(grid))
    /\ [][PlacementPass =>
            /\ last_pick' = "reverted" => grid' = grid
            /\ last_pick' = "placed" =>
                  Cardinality(Blocked(grid')) = Cardinality(Blocked(grid)) + 1]_vars
    /\ [][Placing => pc' # "scattering"]_vars

\* The loop on a 4x4 grid has just reverted a pick: with (0,2), (1,2) and
\* (2,0) Blocked, blocking (2,1) would wall the start corner off.
C27_Witness ==
    /\ Placing
    /\ last_pick = "reverted"
    /\ grid.width = 4 /\ grid.height = 4
    /\ Blocked(grid) = {P(0, 2), P(1, 2), P(2, 0)}
    /\ ~EndReachable(add_obstacle(grid, P(2, 1)))

\* run_benchmarks has been through all its algorithms and is about to
\* return Ok(all_metrics).
RunAboutToReturn ==
    api = "run_benchmarks" /\ pc = "algorithms" /\ algorithms = <<>>

\* benchmark_algorithm, called for one of the five names, has been through
\* all the grids and is about to return Ok(results).
BenchmarkAboutToReturn ==
    /\ api = "benchmark_algorithm" /\ pc = "grids"
    /\ grid_index > Len(grids)
    /\ KnownAlgorithm

\* The call in progress was made for at least a 1x1 grid and at least one
\* iteration.
ProperBenchmarkCall ==
    grid_size[1] >= 1 /\ grid_size[2] >= 1 /\ iterations >= 1

\* Metric m reports a path found on grid g, of the length of its path, from
\* start to end.
FoundOn(m, g) ==
    /\ m.path_found
    /\ m.path # <<>>
    /\ m.path_length = Len(m.path)
    /\ m.path[1] = g.start
    /\ m.path[Len(m.path)] = g.end
    /\ m.grid_size = <<g.width, g.height>>
    /\ m.obstacle_count = Cardinality(Blocked(g))

\* The five names in the order of the claim.
ClaimedOrder ==
    <<"A*", "Dijkstra", "Breadth-First Search", "Depth-First Search",
      "Greedy Best-First">>

C28_ThreeMetrics2x2 ==
    /\ pc = "ready"
    /\ api_result = "Ok"
    /\ grid_size = <<2, 2>>
    /\ Len(results) = 3
    /\ results[3].path_length = 3

---------------------------------------------------------------------------
\* The two depth-first searches as whole runs.

\* The locals of depth_first::find_path, with the order of the explore_node
\* calls.
NewDfsRun == [visited |-> {}, path |-> <<>>, order |-> <<>>, found |-> FALSE]

\* dfs_recursive and its for-loop over the neighbours.
RECURSIVE dfs_recursive(_, _, _)
RECURSIVE dfs_recursive_for(_, _, _)
dfs_recursive(g, cur, st) ==
    LET s1 == [st EXCEPT !.visited = @ \union {cur},
                         !.path = Append(@, cur),
                         !.order = Append(@, cur)]
    IN  IF cur = g.end
        THEN [s1 EXCEPT !.found = TRUE]
        ELSE LET s2 == dfs_recursive_for(g, get_neighbors(g, cur), s1)
             IN  IF s2.found THEN s2
                 ELSE [s2 EXCEPT !.path = SubSeq(@, 1, Len(@) - 1)]

dfs_recursive_for(g, ns, st) ==
    IF ns = <<>> THEN st
    ELSE IF Head(ns) \notin st.visited
         THEN LET s1 == dfs_recursive(g, Head(ns), st)
              IN  IF s1.found THEN s1
                  ELSE dfs_recursive_for(g, Tail(ns), s1)
         ELSE dfs_recursive_for(g, Tail(ns), st)

\* depth_first::find_path: the path it returns and the order it explored in.
find_path_dfs(g) ==
    LET r == dfs_recursive(g, g.start, NewDfsRun)
    IN  [path |-> IF r.found THEN r.path ELSE <<>>, order |-> r.order]

\* depth_first::find_path_iterative, the while-let loop on the stack.
RECURSIVE iterative_loop(_, _, _)
iterative_loop(g, s, order) ==
    IF s.queue = <<>> THEN [path |-> <<>>, order |-> order]
    ELSE LET cur == s.queue[Len(s.queue)]
             s0 == [s EXCEPT !.queue = SubSeq(@, 1, Len(@) - 1)]
             s1 == [s0 EXCEPT !.visited = @ \union {cur},
                              !.counter = explore_node(@)]
         IN  IF cur \in s.visited
             THEN iterative_loop(g, s0, order)
             ELSE IF cur = g.end
                  THEN [path |-> reconstruct_path(s1.came_from, cur),
                        order |-> Append(order, cur)]
                  ELSE iterative_loop(g,
                           dfs_iterative_neighbors(
                               reverse(get_neighbors(g, cur)), cur, s1),
                           Append(order, cur))

\* depth_first::find_path_iterative: its path and its order of exploration.
find_path_iterative(g) ==
    iterative_loop(g, entry_locals("depth_first::find_path_iterative", g),
                   <<>>)

DepthFirstSearches ==
    {"depth_first::find_path", "depth_first::find_path_iterative"}

\* The run of the other depth-first search on the same grid.
OtherDfs(alg, g) ==
    IF alg = "depth_first::find_path" THEN find_path_iterative(g)
    ELSE find_path_dfs(g)

\* The number of explore_node calls so far.
ExploredCount == BagCardinality(explored)

\* C29: on every grid find_path_iterative explores positions in the same
\* order and returns the same path as the recursive find_path: the k-th
\* position either search explores is the k-th position the other explores
\* on that grid, and when either returns it has explored as many positions
\* as the other does and returns the other's path.
C29_IterativeDfsMatchesRecursive ==
    /\ [][(call' \in DepthFirstSearches /\ explored' # explored
              /\ explored' # EmptyBag) =>
            LET other == OtherDfs(call', grid')
                k == BagCardinality(explored')
            IN  /\ k <= Len(other.order)
                /\ current' = other.order[k]]_vars
    /\ [](call \in DepthFirstSearches /\ pc = "done" =>
            LET other == OtherDfs(call, grid)
            IN  /\ path = other.path
                /\ ExploredCount = Len(other.order))

\* find_path_iterative has returned the nine-cell path of the recursive
\* search on the obstacle-free 3x3 grid, having pushed positions a second
\* time while they waited on the stack.
C29_Witness ==
    /\ call = "depth_first::find_path_iterative" /\ pc = "done"
    /\ grid.width = 3 /\ grid.height = 3 /\ Blocked(grid) = {}
    /\ grid.start = Position_new(0, 0) /\ grid.end = Position_new(2, 2)
    /\ Len(path) = 9
    /\ path = find_path_dfs(grid).path
    /\ counter.nodes_in_frontier > 9

\* Both searches give up on a grid whose end is walled off, after exploring
\* the same positions.
C29_WitnessNoPath ==
    /\ call = "depth_first::find_path_iterative" /\ pc = "done"
    /\ path = <<>>
    /\ ExploredCount >= 3
    /\ ExploredCount = Len(find_path_dfs(grid).order)

---------------------------------------------------------------------------
\* search::jump_search::search(data, target)

Words == 0..MaxWord

\* The slices sorted in ascending order, equal neighbours allowed.
SortedSlices ==
    {d \in UNION {[1..len -> Words] : len \in 0..MaxLen} :
        \A k \in 1..(Len(d) - 1) : d[k] <= d[k + 1]}

\* (n as f64).sqrt() as usize
usize_sqrt(n) == CHOOSE k \in 0..n : k * k <= n /\ (k + 1) * (k + 1) > n

jump_size(d) == usize_sqrt(Len(d))

min(a, b) == IF a < b THEN a ELSE b

\* data[k], indexed from 0 as the slice is.
at(d, k) == d[k + 1]

\* The index the while condition reads.
probe(d, p) == min(min(jump_size(d), Len(d) - 1), p + jump_size(d) - 1)

\* The block bound of the linear search.
block_end(d, p) == min(p + jump_size(d), Len(d))

InitJump ==
    /\ data \in SortedSlices
    /\ target \in Words
    /\ prev = 0
    /\ index = 0
    /\ comparisons = 0
    /\ found = FALSE
    /\ grid = Grid_new(0, 0, CornerStart, CornerEnd(0, 0))
    /\ call = "jump_search::search"
    /\ pc = "called"
    /\ InitLocals
    /\ InitCoordinatorFields

\* if data.is_empty() { return (false, 0) }, then the locals.
JumpSearchEntry ==
    /\ call = "jump_search::search" /\ pc = "called"
    /\ UNCHANGED <<gridVars, searchVars, benchVars, call, data, target>>
    /\ prev' = 0
    /\ index' = 0
    /\ comparisons' = 0
    /\ found' = FALSE
    /\ pc' = IF data = <<>> THEN "returned" ELSE "jumping"

\* One evaluation of the while condition and, when it holds, its body.
JumpLoop ==
    /\ call = "jump_search::search" /\ pc = "jumping"
    /\ UNCHANGED <<gridVars, searchVars, benchVars, call, data, target, found>>
    /\ IF prev < Len(data) /\ at(data, probe(data, prev)) < target
       THEN /\ comparisons' = comparisons + 1
            /\ prev' = prev + jump_size(data)
            /\ index' = prev'
            /\ pc' = IF prev' >= Len(data) THEN "scanning" ELSE "jumping"
       ELSE /\ index' = prev
            /\ pc' = "scanning"
            /\ UNCHANGED <<prev, comparisons>>

\* One pass of `for i in prev..end`, or its end.
LinearLoop ==
    /\ call = "jump_search::search" /\ pc = "scanning"
    /\ UNCHANGED <<gridVars, searchVars, benchVars, call, data, target, prev>>
    /\ IF index >= block_end(data, prev)
       THEN /\ found' = FALSE
            /\ pc' = "returned"
            /\ UNCHANGED <<index, comparisons>>
       ELSE /\ comparisons' = comparisons + 1
            /\ IF at(data, index) = target
               THEN /\ found' = TRUE
                    /\ pc' = "returned"
                    /\ UNCHANGED index
               ELSE IF at(data, index) > target
               THEN /\ found' = FALSE
                    /\ pc' = "returned"
                    /\ UNCHANGED index
               ELSE /\ index' = index + 1
                    /\ UNCHANGED <<found, pc>>

NextJump == JumpSearchEntry \/ JumpLoop \/ LinearLoop

SpecJump == InitJump /\ [][NextJump]_vars

JumpSearchReturned == call = "jump_search::search" /\ pc = "returned"

InSlice(d, w) == \E k \in 1..Len(d) : d[k] = w

\* C30: on a slice sorted in ascending order search returns found = true
\* exactly when target is an element of data, whatever the length of the
\* slice and the position of the target.
C30_FoundExactlyWhenPresent ==
    JumpSearchReturned => (found <=> InSlice(data, target))

\* What search does guarantee: it never reports a word that is absent, it
\* finds every word whose first occurrence is at an index up to jump_size,
\* and so every word of a slice of one or two elements.
JumpSearchSound ==
    JumpSearchReturned =>
        /\ found => InSlice(data, target)
        /\ (\E k \in 0..min(jump_size(data), Len(data) - 1) :
               at(data, k) = target) => found
        /\ Len(data) <= 2 => (found <=> InSlice(data, target))

\* search has returned false for the last word of a three-word slice.
JumpSearchMissesThird ==
    /\ JumpSearchReturned
    /\ data = <<0, 1, 2>>
    /\ target = 2
    /\ ~found
    /\ prev = 3
    /\ comparisons = 3

=============================================================================
